---- MODULE Spec2Model ----
(***************************************************************************)
(* Project AIM (Fredericton): the PDF tab manager, the session persistence,*)
(* the overlay registry, the floating window manager and the metadata      *)
(* workbook of static/js/app.js, with the PDF.js viewer URL helper.        *)
(*                                                                         *)
(* JavaScript strings are sequences of one-character strings, so that      *)
(* encoding, concatenation and String.prototype.includes are computed.     *)
(***************************************************************************)
EXTENDS Integers, Sequences, FiniteSets, TLC

(* ------------------------------------------------------------------ *)
(* Strings                                                            *)
(* ------------------------------------------------------------------ *)

Empty == << >>

RECURSIVE Join(_, _)
\* Array.prototype.join: the strings of parts separated by sep
Join(parts, sep) ==
    IF Len(parts) = 0 THEN Empty
    ELSE IF Len(parts) = 1 THEN parts[1]
    ELSE parts[1] \o sep \o Join(Tail(parts), sep)

\* String.prototype.includes
Includes(s, sub) ==
    \E i \in 1..(Len(s) - Len(sub) + 1) : SubSeq(s, i, i + Len(sub) - 1) = sub

Lower ==
    [c \in {"I", "R", "S", "Q", "D", "M", "O", "F", "T", "A", "B"} |->
        CASE c = "I" -> "i" [] c = "R" -> "r" [] c = "S" -> "s" [] c = "Q" -> "q"
          [] c = "D" -> "d" [] c = "M" -> "m" [] c = "O" -> "o" [] c = "F" -> "f"
          [] c = "T" -> "t" [] c = "A" -> "a" [] c = "B" -> "b"]

\* String.prototype.toLowerCase
ToLowerCase(s) == [i \in 1..Len(s) |-> IF s[i] \in DOMAIN Lower THEN Lower[s[i]] ELSE s[i]]

RECURSIVE TrimLeft(_)
TrimLeft(s) == IF Len(s) > 0 /\ s[1] = " " THEN TrimLeft(Tail(s)) ELSE s

RECURSIVE TrimRight(_)
TrimRight(s) ==
    IF Len(s) > 0 /\ s[Len(s)] = " " THEN TrimRight(SubSeq(s, 1, Len(s) - 1)) ELSE s

\* String.prototype.trim
Trim(s) == TrimRight(TrimLeft(s))

Digits == {"0", "1", "2", "3", "4", "5", "6", "7", "8", "9"}

Letters ==
    {"a", "b", "c", "d", "e", "f", "g", "h", "i", "j", "k", "l", "m", "n", "o", "p", "q",
     "r", "s", "t", "u", "v", "w", "x", "y", "z",
     "A", "B", "D", "F", "I", "M", "O", "Q", "R", "S", "T"}

\* Number -> String for the small naturals the program formats
DigitOf == [d \in 0..9 |->
    CASE d = 0 -> "0" [] d = 1 -> "1" [] d = 2 -> "2" [] d = 3 -> "3" [] d = 4 -> "4"
      [] d = 5 -> "5" [] d = 6 -> "6" [] d = 7 -> "7" [] d = 8 -> "8" [] d = 9 -> "9"]

RECURSIVE NumToStr(_)
NumToStr(n) == IF n < 10 THEN <<DigitOf[n]>> ELSE NumToStr(n \div 10) \o <<DigitOf[n % 10]>>

(* ------------------------------------------------------------------ *)
(* Percent encoding                                                   *)
(* ------------------------------------------------------------------ *)

\* the two hex digits of the characters that get percent-encoded
PctHex ==
    [c \in {" ", "/", "(", ")", "%", "+", "&", "=", "#", "?", ":"} |->
        CASE c = " " -> <<"2", "0">> [] c = "/" -> <<"2", "F">> [] c = "(" -> <<"2", "8">>
          [] c = ")" -> <<"2", "9">> [] c = "%" -> <<"2", "5">> [] c = "+" -> <<"2", "B">>
          [] c = "&" -> <<"2", "6">> [] c = "=" -> <<"3", "D">> [] c = "#" -> <<"2", "3">>
          [] c = "?" -> <<"3", "F">> [] c = ":" -> <<"3", "A">>]

RECURSIVE MapChars(_, _)
MapChars(Enc(_), s) == IF Len(s) = 0 THEN Empty ELSE Enc(s[1]) \o MapChars(Enc, Tail(s))

\* encodeURIComponent: A-Z a-z 0-9 - _ . ! ~ * ' ( ) stay, the rest is %XX
UriComponentChar(c) ==
    IF c \in Letters \cup Digits \cup {"-", "_", ".", "(", ")"} THEN <<c>>
    ELSE <<"%">> \o PctHex[c]

encodeURIComponent(s) == MapChars(UriComponentChar, s)

\* URLSearchParams.toString (application/x-www-form-urlencoded): A-Z a-z 0-9 * - . _
\* stay, a space becomes "+", the rest is %XX
FormChar(c) ==
    IF c \in Letters \cup Digits \cup {"-", "_", "."} THEN <<c>>
    ELSE IF c = " " THEN <<"+">>
    ELSE <<"%">> \o PctHex[c]

FormEncode(s) == MapChars(FormChar, s)

\* a well-formed %XX escape starts at position i of s
EscapeAt(s, i) ==
    /\ s[i] = "%"
    /\ i + 2 <= Len(s)
    /\ \E c \in DOMAIN PctHex : PctHex[c] = <<s[i + 1], s[i + 2]>>

\* decodeURIComponent throws URIError on a "%" that starts no escape
Malformed(s) == \E i \in 1..Len(s) : s[i] = "%" /\ ~EscapeAt(s, i)

RECURSIVE decodeURIComponent(_)
decodeURIComponent(s) ==
    IF Len(s) = 0 THEN Empty
    ELSE IF EscapeAt(s, 1)
    THEN <<CHOOSE c \in DOMAIN PctHex : PctHex[c] = <<s[2], s[3]>> >>
            \o decodeURIComponent(SubSeq(s, 4, Len(s)))
    ELSE <<s[1]>> \o decodeURIComponent(Tail(s))

RECURSIVE deepDecodeFrom(_, _)
deepDecodeFrom(out, rounds) ==
    IF rounds = 0 \/ Malformed(out) THEN out
    ELSE IF decodeURIComponent(out) = out THEN out
    ELSE deepDecodeFrom(decodeURIComponent(out), rounds - 1)

maxRounds == 3

deepDecode(value) == deepDecodeFrom(value, maxRounds)

(* ------------------------------------------------------------------ *)
(* Asset URLs                                                         *)
(* ------------------------------------------------------------------ *)

\* the page is served from the site root (the "dev" case of the source comment)
AIM_BASE_PATH == <<"/">>

RECURSIVE StripLeadingSlashes(_)
StripLeadingSlashes(r) ==
    IF Len(r) > 0 /\ r[1] = "/" THEN StripLeadingSlashes(Tail(r)) ELSE r

RECURSIVE StripTrailingSlashes(_)
StripTrailingSlashes(b) ==
    IF Len(b) > 0 /\ b[Len(b)] = "/" THEN StripTrailingSlashes(SubSeq(b, 1, Len(b) - 1)) ELSE b

\* b.replace(/\/+$/, '/') + r.replace(/^\/+/, '')
aimJoinPath(basePath, relPath) ==
    LET b == IF basePath = Empty THEN <<"/">> ELSE basePath
        bb == IF b[Len(b)] = "/" THEN StripTrailingSlashes(b) \o <<"/">> ELSE b
    IN  bb \o StripLeadingSlashes(relPath)

aimStaticUrl(relPath) ==
    aimJoinPath(AIM_BASE_PATH, aimJoinPath(<<"s","t","a","t","i","c","/">>, relPath))

\* pdfUrl([decade, filename]): the decoded segments joined by "/", left un-encoded
pdfUrl(pathSegments) ==
    aimStaticUrl(<<"p","d","f","s","/">>
        \o Join([i \in 1..Len(pathSegments) |-> deepDecode(pathSegments[i])], <<"/">>))

(* ------------------------------------------------------------------ *)
(* PDF.js viewer URL                                                  *)
(* ------------------------------------------------------------------ *)

viewerBase == <<"p","d","f","j","s","/","w","e","b","/","v","i","e","w","e","r",".","h","t","m","l">>

\* the zoom the application passes on every call ({ zoom: 75, pagemode: 'none' })
ViewerZoom == 75

\* buildPdfJsViewerUrl(fileUrl, { zoom: 75, pagemode: 'none', aimTitle })
buildPdfJsViewerUrl(fileUrl, aimTitle) ==
    LET params == <<"f","i","l","e","=">> \o FormEncode(fileUrl)
                    \o (IF aimTitle # Empty
                        THEN <<"&","a","i","m","T","i","t","l","e","=">> \o FormEncode(aimTitle)
                        ELSE Empty)
        hashParts == << <<"p","a","g","e","=">> \o encodeURIComponent(NumToStr(1)),
                        <<"z","o","o","m","=">> \o encodeURIComponent(NumToStr(ViewerZoom)),
                        <<"p","a","g","e","m","o","d","e","=">>
                            \o encodeURIComponent(<<"n","o","n","e">>) >>
        hash == <<"#">> \o Join(hashParts, <<"&">>)
    IN  viewerBase \o <<"?">> \o params \o hash

\* the zoom the load listener of the viewer re-applies
ReapplyZoom == 75

RECURSIVE BeforeHash(_)
\* String(url).split('#'): the part before the first '#'
BeforeHash(s) ==
    IF Len(s) = 0 \/ s[1] = "#" THEN Empty ELSE <<s[1]>> \o BeforeHash(Tail(s))

\* withPdfView(url, zoomPct): base and frag are the first two parts of the
\* split, what follows a second '#' is dropped
withPdfView(url, zoomPct) ==
    LET base == BeforeHash(url)
        frag == IF Len(base) = Len(url) THEN Empty
                ELSE BeforeHash(SubSeq(url, Len(base) + 2, Len(url)))
        add == <<"v","i","e","w","=","F","i","t","H","&","z","o","o","m","=">> \o NumToStr(zoomPct)
                 \o <<"&","n","a","v","p","a","n","e","s","=","0","&","p","a","g","e","m","o","d","e","=","n","o","n","e">>
    IN  IF frag # Empty THEN base \o <<"#">> \o frag \o <<"&">> \o add
        ELSE base \o <<"#">> \o add

\* a load listener that re-applies the parameters at every load
loadListenerUnmarked(v) ==
    IF v.src = Empty THEN v
    ELSE [src |-> withPdfView(v.src, ReapplyZoom), appliedOnce |-> v.appliedOnce]

\* the load listener of #pdf-viewer, on the src attribute and
\* dataset.appliedOnce of the iframe
loadListener(v) ==
    IF v.src = Empty THEN v
    ELSE IF v.appliedOnce = v.src THEN v
    ELSE IF Includes(v.src, <<"v","i","e","w","=">>) /\ Includes(v.src, <<"z","o","o","m","=">>)
    THEN [v EXCEPT !.appliedOnce = v.src]
    ELSE [src |-> withPdfView(v.src, ReapplyZoom),
          appliedOnce |-> withPdfView(v.src, ReapplyZoom)]

(* ------------------------------------------------------------------ *)
(* Data feeds                                                         *)
(* ------------------------------------------------------------------ *)

\* static/data/archive.json: two documents of one decade; the second has a
\* space in its filename and no ui_label_2
ArchiveRows ==
    << [ui_group |-> <<"D">>, filename |-> <<"R">>, ui_label_2 |-> <<"M">>],
       [ui_group |-> <<"D">>, filename |-> <<"R"," ","S">>, ui_label_2 |-> Empty] >>

e1924 ==
    [ui_label |-> <<"1","9","2","4">>, ui_group |-> <<"1","9","2","0","s">>,
     service_type |-> <<"t","i","l","e","d">>, url |-> <<"m","/","1","9","2","4">>,
     default_on |-> Empty]

e1950 ==
    [ui_label |-> <<"1","9","5","0">>, ui_group |-> <<"1","9","5","0","s">>,
     service_type |-> <<"t","i","l","e","d">>, url |-> <<"m","/","1","9","5","0">>,
     default_on |-> <<"t","r","u","e">>]

eImagery ==
    [ui_label |-> <<"I","m","a","g","e","r","y">>, ui_group |-> <<"B","a","s","e","m","a","p","s">>,
     service_type |-> <<"h","y","b","r","i","d">>, url |-> <<"I","m","a","g","e","r","y">>,
     default_on |-> Empty]

\* a feed entry of the service kind svc
KindEntry(label, svc, url) ==
    [ui_label |-> label, ui_group |-> <<"B","a","s","e","m","a","p","s">>,
     service_type |-> svc, url |-> url, default_on |-> Empty]

\* one entry of each branch of addLayerForEntry: tiles, basemap by URL and by
\* name, vector-street, a kind without a branch, no kind
KindEntries ==
    { e1924, e1950, eImagery,
      KindEntry(<<"t">>, <<"t","i","l","e","s">>, <<"m","/","t">>),
      KindEntry(<<"b">>, <<"b","a","s","e","m","a","p">>, <<"h","t","t","p",":","/","/","b">>),
      KindEntry(<<"n">>, <<"b","a","s","e","m","a","p">>, <<"T","o","p","o">>),
      KindEntry(<<"s">>, <<"v","e","c","t","o","r","-","s","t","r","e","e","t">>, Empty),
      KindEntry(<<"w">>, <<"w","m","s">>, <<"m","/","w">>),
      KindEntry(<<"u">>, Empty, <<"m","/","u">>) }

\* static/data/imagery.json is one of these (the same file on every reload)
ImageryFeeds == { <<e1950, e1924>>, <<eImagery, e1924>> }

StreetOverlay == <<"S","t","r","e","e","t"," ","O","v","e","r","l","a","y">>

OSM == <<"O","S","M">>

(* ------------------------------------------------------------------ *)
(* State                                                              *)
(* ------------------------------------------------------------------ *)

\* the number of tabs the user opens at most
MaxTabs == 3

\* null and undefined
Null == <<"null">>

Undefined == <<"undefined">>

VARIABLES
    imageryRows,     \* the rows static/data/imagery.json holds
    imageryLoaded,   \* the imagery feed's then-handler has run: the checkboxes exist
    archiveData,     \* the rows of archive.json once loaded (empty before)
    archiveLoaded,   \* the archive feed's then-handler has run
    checked,         \* the ids of the checked checkboxes of #imagery-toggle
    onMap,           \* the layers attached to the map, <<id, part>>
    pendingEnable,   \* ids with a setTimeout(() => enableLayer(id), 20) pending
    openPdfs,        \* tabKey -> entry, in insertion order
    activePdfKey,    \* the active tabKey, or Null
    pdfViewerSrc,    \* the src attribute of #pdf-viewer
    sessionStore,    \* sessionStorage['aim_session']: << >> or <<blob>>
    startup,         \* what the page held when it was last reloaded, until a user event
    floatingWindows, \* pane -> the .floating-window elements of the pane, in document order
                     \* (initial: the position the element was given when constructed)
    dockButtons,     \* pane -> the data-key of the buttons of the pane's dock, in order
    dockDisplay,     \* pane -> style.display of the pane's dock
    drag,            \* the drag in progress (the closure of makeDraggable), or NoDrag
    lastOpen,        \* the last window event if it was an openFloatingWindow call, or NoOpen
    layout,          \* the sizes getBoundingClientRect gives for a pane and a window
    overlays,        \* the overlay store: id -> layer object, or {img, lbl} pair
    ctorThrows,      \* the feed entries whose layer constructor throws
    storeThrows,     \* the methods of sessionStorage that throw: getItem, setItem
    mosaicWorkbook,  \* _mosaicWorkbook: Null or the workbook
    mosaicWorkbookLoading, \* _mosaicWorkbookLoading: NoPromise or the number of the fetch
                     \* whose promise it holds
    fetches,         \* the fetches of the workbook issued so far: the state of each promise
    awaiting,        \* the calls of openMosaicMetadataWindow suspended at their await:
                     \* the window key, the number of the fetch awaited, and whether
                     \* the window element they hold is still in the page
    appliedOnce      \* pdfViewer.dataset.appliedOnce: Undefined or a source

\* the variables of the feeds, the overlays, the tabs and the session store
pageVars ==
    <<imageryRows, imageryLoaded, archiveData, archiveLoaded, checked, onMap,
      pendingEnable, openPdfs, activePdfKey, pdfViewerSrc, sessionStore, startup, overlays>>

\* the variables of the floating window manager
winVars == <<floatingWindows, dockButtons, dockDisplay, drag, lastOpen, layout>>

\* what the browser and the libraries do to the page
envVars == <<ctorThrows, storeThrows>>

\* the variables of the metadata workbook cache
bookVars == <<mosaicWorkbook, mosaicWorkbookLoading, fetches, awaiting>>

vars == <<pageVars, winVars, envVars, bookVars, appliedOnce>>

(* ------------------------------------------------------------------ *)
(* PDF tab manager                                                    *)
(* ------------------------------------------------------------------ *)

Keys(tabs) == {tabs[i].key : i \in 1..Len(tabs)}

\* openPdfs[tabKey]
Entry(tabs, tabKey) == tabs[CHOOSE i \in 1..Len(tabs) : tabs[i].key = tabKey]

\* delete openPdfs[tabKey]
Delete(tabs, tabKey) == SelectSeq(tabs, LAMBDA e : e.key # tabKey)

\* the page's mutable state as one record, which the operations below transform
Page ==
    [checked |-> checked, onMap |-> onMap, openPdfs |-> openPdfs,
     activePdfKey |-> activePdfKey, pdfViewerSrc |-> pdfViewerSrc,
     sessionStore |-> sessionStore, overlays |-> overlays, storeThrows |-> storeThrows]

\* `${baseKey} (${n})`
SuffixedKey(baseKey, n) == baseKey \o <<" ", "(">> \o NumToStr(n) \o <<")">>

RECURSIVE FreeSuffix(_, _, _)
\* the loop of openPdfInTab from the first suffixed candidate on: the n it ends with
FreeSuffix(tabs, baseKey, n) ==
    IF SuffixedKey(baseKey, n) \in Keys(tabs) THEN FreeSuffix(tabs, baseKey, n + 1) ELSE n

\* a key choice that tries the suffix 2 only
NewTabKeyOnce(tabs, baseKey) ==
    IF baseKey \notin Keys(tabs) THEN baseKey ELSE SuffixedKey(baseKey, 2)

\* let tabKey = baseKey; let n = 2; while (openPdfs[tabKey]) { tabKey = `${baseKey} (${n})`; n++ }
NewTabKey(tabs, baseKey) ==
    IF baseKey \notin Keys(tabs) THEN baseKey
    ELSE SuffixedKey(baseKey, FreeSuffix(tabs, baseKey, 2))

activatePdfTab(ts, tabKey) ==
    IF tabKey \notin Keys(ts.openPdfs) THEN ts
    ELSE [ts EXCEPT
            !.openPdfs = [i \in 1..Len(ts.openPdfs) |->
                            [ts.openPdfs[i] EXCEPT !.active = (ts.openPdfs[i].key = tabKey)]],
            !.activePdfKey = tabKey,
            !.pdfViewerSrc = buildPdfJsViewerUrl(Entry(ts.openPdfs, tabKey).url,
                                                 Entry(ts.openPdfs, tabKey).aimTitle)]

\* openPdfInTab up to its call of persistStateToSession
openPdfInTabState(ts, filename, url, aimTitle) ==
    LET tabKey == NewTabKey(ts.openPdfs, filename)
        label == IF Trim(aimTitle) # Empty THEN Trim(aimTitle) ELSE filename
        displayLabel ==
            IF tabKey = filename THEN label
            ELSE label \o <<" ", "(">> \o NumToStr(FreeSuffix(ts.openPdfs, filename, 2)) \o <<")">>
        entry == [key |-> tabKey, url |-> url, label |-> displayLabel, filename |-> filename,
                  aimTitle |-> label, active |-> FALSE, restored |-> FALSE]
    IN  activatePdfTab([ts EXCEPT !.openPdfs = Append(@, entry)], tabKey)

\* closePdfTab up to its call of persistStateToSession
closePdfTabState(ts, tabKey) ==
    IF tabKey \notin Keys(ts.openPdfs) THEN ts
    ELSE LET rest == Delete(ts.openPdfs, tabKey)
             removed == [ts EXCEPT !.openPdfs = rest]
         IN  IF ts.activePdfKey = tabKey
             THEN IF Len(rest) > 0 THEN activatePdfTab(removed, rest[1].key)
                  ELSE [removed EXCEPT !.activePdfKey = Null, !.pdfViewerSrc = Empty]
             ELSE IF Len(rest) = 0
                  THEN [removed EXCEPT !.activePdfKey = Null, !.pdfViewerSrc = Empty]
                  ELSE removed

\* window.location.origin of the page
PageOrigin == <<"h","t","t","p",":","/","/","h">>

\* the src property of the iframe: the attribute resolved against the page
pdfViewerSrcProperty(attr) == IF attr = Empty THEN Empty ELSE PageOrigin \o AIM_BASE_PATH \o attr

(* ------------------------------------------------------------------ *)
(* Overlay registry                                                   *)
(* ------------------------------------------------------------------ *)

\* the characters of the feed's group names in code-unit order
CodeOrder ==
    <<" ","0","1","2","3","4","5","6","7","8","9","A","B","D","F","I","M","O","Q","R","S","T",
      "a","b","c","d","e","f","g","h","i","j","k","l","m","n","o","p","q","r","s","t","u","v",
      "w","x","y","z">>

Code(c) == CHOOSE i \in 1..Len(CodeOrder) : CodeOrder[i] = c

RECURSIVE StrLess(_, _)
\* a < b of two strings (the default comparison of Array.prototype.sort)
StrLess(a, b) ==
    IF Len(b) = 0 THEN FALSE
    ELSE IF Len(a) = 0 THEN TRUE
    ELSE IF a[1] = b[1] THEN StrLess(Tail(a), Tail(b))
    ELSE Code(a[1]) < Code(b[1])

\* row.ui_group || 'ungrouped'
GroupOf(row) ==
    IF row.ui_group = Empty THEN <<"u","n","g","r","o","u","p","e","d">> ELSE row.ui_group

\* the feed's entries in the order their checkboxes are built: groups sorted,
\* entries of a group in feed order
RECURSIVE SortedEntries(_)
SortedEntries(rows) ==
    IF Len(rows) = 0 THEN << >>
    ELSE LET g == GroupOf(rows[CHOOSE i \in 1..Len(rows) :
                            \A j \in 1..Len(rows) : ~StrLess(GroupOf(rows[j]), GroupOf(rows[i]))])
         IN  SelectSeq(rows, LAMBDA r : GroupOf(r) = g)
                \o SortedEntries(SelectSeq(rows, LAMBDA r : GroupOf(r) # g))

\* the data-id of the checkboxes of #imagery-toggle in document order
CheckboxIds(rows) ==
    <<StreetOverlay, OSM>> \o [i \in 1..Len(rows) |-> SortedEntries(rows)[i].ui_label]

\* options.opacity of a layer as constructed, in percent
FullOpacity == 100

\* the values the opacity slider is moved to, in percent
SliderValues == {0, 50}

\* a Leaflet layer object as the constructor ctor returns it
Layer(ctor) == [ctor |-> ctor, opacity |-> FullOpacity]

\* L.layerGroup(): the empty placeholder
Placeholder == Layer("layerGroup")

\* a call of a layer constructor: << >> if it throws, <<layer>> otherwise
Construct(ctor, throws) == IF throws THEN << >> ELSE <<Layer(ctor)>>

\* /^https?:\/\//i.test(val)
IsHttpUrl(val) ==
    \/ Len(val) >= 7 /\ ToLowerCase(SubSeq(val, 1, 7)) = <<"h","t","t","p",":","/","/">>
    \/ Len(val) >= 8 /\ ToLowerCase(SubSeq(val, 1, 8)) = <<"h","t","t","p","s",":","/","/">>

\* what the try block of addLayerForEntry makes for the entry: << >> if a
\* constructor throws or the service kind has no branch
TryConstruct(entry, throws) ==
    LET svc == ToLowerCase(entry.service_type)
    IN  IF svc \in {<<"t","i","l","e","d">>, <<"t","i","l","e","s">>}
        THEN Construct("tiledMapLayer", throws)
        ELSE IF svc = <<"b","a","s","e","m","a","p">>
        THEN IF IsHttpUrl(entry.url) THEN Construct("tiledMapLayer", throws)
             ELSE Construct("basemapLayer", throws)
        ELSE IF svc = <<"h","y","b","r","i","d">>
        THEN IF throws THEN << >>
             ELSE << [img |-> Layer("basemapLayer"), lbl |-> Layer("basemapLayer")] >>
        ELSE IF svc = <<"v","e","c","t","o","r","-","s","t","r","e","e","t">>
        THEN Construct("basemapLayer", throws)
        ELSE << >>

\* an addLayerForEntry whose hybrid branch has no catch: the exception leaves
\* the function and nothing is registered
addLayerForEntryUncaught(reg, entry, throws) ==
    LET made == TryConstruct(entry, throws)
    IN  IF made = << >> /\ ToLowerCase(entry.service_type) = <<"h","y","b","r","i","d">>
        THEN [overlays |-> reg, raised |-> TRUE]
        ELSE [overlays |-> (entry.ui_label :> (IF made = << >> THEN Placeholder ELSE made[1])) @@ reg,
              raised |-> FALSE]

\* addLayerForEntry(entry): the overlay store it leaves, and whether it raised
addLayerForEntry(reg, entry, throws) ==
    LET made == TryConstruct(entry, throws)
    IN  [overlays |-> (entry.ui_label :> (IF made = << >> THEN Placeholder ELSE made[1])) @@ reg,
         raised |-> FALSE]

RECURSIVE addLayers(_, _, _)
\* rows.forEach(row => { ...; addLayerForEntry(row) }): a call that raises ends the loop
addLayers(reg, rows, throwing) ==
    IF Len(rows) = 0 THEN [overlays |-> reg, raised |-> FALSE]
    ELSE LET one == addLayerForEntry(reg, rows[1], rows[1].ui_label \in throwing)
         IN  IF one.raised THEN one ELSE addLayers(one.overlays, Tail(rows), throwing)

\* obj.img && obj.lbl
IsPair(obj) == "img" \in DOMAIN obj /\ "lbl" \in DOMAIN obj

\* the Leaflet layers of overlays[id]: the {img, lbl} pair of a hybrid entry,
\* one layer otherwise
LayersOf(reg, id) ==
    IF id \notin DOMAIN reg THEN {}
    ELSE IF IsPair(reg[id]) THEN {<<id, "img">>, <<id, "lbl">>}
    ELSE {<<id, "layer">>}

\* overlays[id] is set: OSM from the start, the others by the feed's handler
HasOverlay(reg, id) == id \in DOMAIN reg

\* if (!map.hasLayer(l)) l.addTo(map)
addIfAbsent(layers, l) == IF l \in layers THEN layers ELSE layers \cup {l}

\* if (map.hasLayer(l)) map.removeLayer(l)
removeIfPresent(layers, l) == IF l \in layers THEN layers \ {l} ELSE layers

\* an enableLayer that attaches the imagery member of a pair only
enableLayerImageryOnly(pg, rows, id) ==
    IF ~HasOverlay(pg.overlays, id) THEN pg
    ELSE IF IsPair(pg.overlays[id])
    THEN [pg EXCEPT !.onMap = addIfAbsent(@, <<id, "img">>)]
    ELSE [pg EXCEPT !.onMap = @ \cup {<<id, "layer">>}]

\* enableLayer(id): every layer of the overlay is added to the map, if absent
enableLayer(pg, rows, id) ==
    IF ~HasOverlay(pg.overlays, id) THEN pg
    ELSE IF IsPair(pg.overlays[id])
    THEN [pg EXCEPT !.onMap = addIfAbsent(addIfAbsent(@, <<id, "img">>), <<id, "lbl">>)]
    ELSE [pg EXCEPT !.onMap = @ \cup {<<id, "layer">>}]

\* removeLayer(id): every layer of the overlay is taken off the map, if present
removeLayer(pg, rows, id) ==
    IF ~HasOverlay(pg.overlays, id) THEN pg
    ELSE IF IsPair(pg.overlays[id])
    THEN [pg EXCEPT !.onMap = removeIfPresent(removeIfPresent(@, <<id, "img">>), <<id, "lbl">>)]
    ELSE [pg EXCEPT !.onMap = @ \ {<<id, "layer">>}]

\* Layer.setOpacity exists: tile layers have it, a layer group has not
HasSetOpacity(l) == "ctor" \in DOMAIN l /\ l.ctor # "layerGroup"

\* setLayerOpacity(id, val)
setLayerOpacity(pg, id, val) ==
    IF ~HasOverlay(pg.overlays, id) THEN pg
    ELSE LET obj == pg.overlays[id]
         IN  IF HasSetOpacity(obj) THEN [pg EXCEPT !.overlays[id].opacity = val]
             ELSE IF "img" \in DOMAIN obj /\ HasSetOpacity(obj.img)
             THEN [pg EXCEPT !.overlays[id].img.opacity = val]
             ELSE IF "lbl" \in DOMAIN obj /\ HasSetOpacity(obj.lbl)
             THEN [pg EXCEPT !.overlays[id].lbl.opacity = val]
             ELSE pg

(* ------------------------------------------------------------------ *)
(* Session persistence                                                *)
(* ------------------------------------------------------------------ *)

\* a persist that adds the current state to the blob it finds
persistAppending(pg, boxes) ==
    LET old == IF pg.sessionStore = << >> THEN [enabledLayers |-> << >>, openTabs |-> << >>]
               ELSE pg.sessionStore[1]
    IN  [pg EXCEPT !.sessionStore =
            << [enabledLayers |-> old.enabledLayers \o SelectSeq(boxes, LAMBDA id : id \in pg.checked),
                openTabs |-> old.openTabs \o
                             [i \in 1..Len(pg.openPdfs) |->
                                [filename |-> pg.openPdfs[i].key, url |-> pg.openPdfs[i].url,
                                 label |-> pg.openPdfs[i].label,
                                 aimTitle |-> pg.openPdfs[i].aimTitle]]] >>]

\* persistStateToSession: boxes are the ids of the checkboxes that exist; a
\* setItem that throws is caught and nothing is written
persistStateToSession(pg, boxes) ==
    IF "setItem" \in pg.storeThrows THEN pg
    ELSE [pg EXCEPT !.sessionStore =
            << [enabledLayers |-> SelectSeq(boxes, LAMBDA id : id \in pg.checked),
                openTabs |-> [i \in 1..Len(pg.openPdfs) |->
                                [filename |-> pg.openPdfs[i].key, url |-> pg.openPdfs[i].url,
                                 label |-> pg.openPdfs[i].label,
                                 aimTitle |-> pg.openPdfs[i].aimTitle]]] >>]

\* the change listener of an overlay checkbox, run after the box took its new value
onChange(pg, rows, id) ==
    persistStateToSession(
        IF id \in pg.checked THEN enableLayer(pg, rows, id) ELSE removeLayer(pg, rows, id),
        CheckboxIds(rows))

\* if (chk && !chk.checked) { chk.checked = true; chk.dispatchEvent(new Event('change')) }
checkAndDispatch(pg, rows, boxes, id) ==
    IF (\E i \in 1..Len(boxes) : boxes[i] = id) /\ id \notin pg.checked
    THEN onChange([pg EXCEPT !.checked = @ \cup {id}], rows, id)
    ELSE pg

RECURSIVE restoreLayers(_, _, _, _)
\* state.enabledLayers.forEach(...) of restoreStateFromSession
restoreLayers(pg, rows, boxes, ids) ==
    IF Len(ids) = 0 THEN pg
    ELSE restoreLayers(checkAndDispatch(pg, rows, boxes, ids[1]), rows, boxes, Tail(ids))

\* String(t.filename).replace(/\s*\(\d+\)\s*$/, '').trim()
baseFilename(name) ==
    LET t == TrimRight(name)
        opens == {j \in 1..(Len(t) - 2) :
                    t[j] = "(" /\ \A k \in (j + 1)..(Len(t) - 1) : t[k] \in Digits}
    IN  IF Len(t) >= 3 /\ t[Len(t)] = ")" /\ opens # {}
        THEN Trim(SubSeq(t, 1, (CHOOSE j \in opens : TRUE) - 1))
        ELSE Trim(name)

\* findArchiveRowByFilename: << >> or <<row>>
findArchiveRowByFilename(data, filename) ==
    LET hits == SelectSeq(data, LAMBDA r : Trim(r.filename) = Trim(filename))
    IN  IF Trim(filename) = Empty \/ Len(hits) = 0 THEN << >> ELSE <<hits[1]>>

\* the entry restoreStateFromSession registers for the persisted tab t
restoredEntry(data, t) ==
    LET row == findArchiveRowByFilename(data, baseFilename(t.filename))
        restoredTitle ==
            IF Len(row) > 0 THEN Trim(row[1].ui_label_2)
            ELSE IF t.aimTitle # Empty THEN t.aimTitle
            ELSE IF t.label # Empty THEN t.label ELSE t.filename
        title == IF restoredTitle # Empty THEN restoredTitle ELSE t.filename
    IN  [key |-> t.filename, url |-> t.url, label |-> title, filename |-> Undefined,
         aimTitle |-> title, active |-> FALSE, restored |-> TRUE]

RECURSIVE restoreTabs(_, _, _)
\* state.openTabs.forEach(...) of restoreStateFromSession
restoreTabs(pg, data, tabs) ==
    IF Len(tabs) = 0 THEN pg
    ELSE restoreTabs(
            IF tabs[1].filename \in Keys(pg.openPdfs) THEN pg
            ELSE [pg EXCEPT !.openPdfs = Append(@, restoredEntry(data, tabs[1]))],
            data, Tail(tabs))

\* a restore that takes a missing blob for an empty state and clears the page
restoreOrClear(pg, rows, boxes, data) ==
    IF pg.sessionStore = << >>
    THEN [pg EXCEPT !.checked = {}, !.openPdfs = << >>, !.activePdfKey = Null,
                    !.pdfViewerSrc = Empty]
    ELSE LET state == pg.sessionStore[1]
             layered == restoreLayers(pg, rows, boxes, state.enabledLayers)
         IN  IF Len(state.openTabs) = 0 THEN layered
             ELSE activatePdfTab(restoreTabs(layered, data, state.openTabs),
                                 state.openTabs[1].filename)

\* restoreStateFromSession: boxes are the ids of the checkboxes that exist; a
\* getItem that throws is caught and nothing is restored
restoreStateFromSession(pg, rows, boxes, data) ==
    IF "getItem" \in pg.storeThrows \/ pg.sessionStore = << >> THEN pg
    ELSE LET state == pg.sessionStore[1]
             layered == restoreLayers(pg, rows, boxes, state.enabledLayers)
         IN  IF Len(state.openTabs) = 0 THEN layered
             ELSE activatePdfTab(restoreTabs(layered, data, state.openTabs),
                                 state.openTabs[1].filename)

\* openPdfInTab(filename, url, aimTitle)
openPdfInTab(pg, boxes, filename, url, aimTitle) ==
    persistStateToSession(openPdfInTabState(pg, filename, url, aimTitle), boxes)

\* closePdfTab(tabKey)
closePdfTab(pg, boxes, tabKey) ==
    IF tabKey \notin Keys(pg.openPdfs) THEN pg
    ELSE persistStateToSession(closePdfTabState(pg, tabKey), boxes)

\* the close of a recreated tab without its call of persistStateToSession
restoredCloseUnsaved(pg, boxes, tabKey) ==
    LET removed == [pg EXCEPT !.openPdfs = Delete(@, tabKey)]
    IN  IF /\ pdfViewerSrcProperty(removed.pdfViewerSrc) # Empty
           /\ Includes(pdfViewerSrcProperty(removed.pdfViewerSrc), tabKey)
        THEN IF Len(removed.openPdfs) > 0
             THEN activatePdfTab(removed, removed.openPdfs[1].key)
             ELSE [removed EXCEPT !.pdfViewerSrc = Empty]
        ELSE removed

\* the close of a recreated tab with a persist that lets the store's exception
\* out: the handler ends at the call
restoredCloseUncaught(pg, boxes, tabKey) ==
    LET removed == persistStateToSession([pg EXCEPT !.openPdfs = Delete(@, tabKey)], boxes)
    IN  IF "setItem" \in pg.storeThrows THEN removed
        ELSE IF /\ pdfViewerSrcProperty(removed.pdfViewerSrc) # Empty
                /\ Includes(pdfViewerSrcProperty(removed.pdfViewerSrc), tabKey)
        THEN IF Len(removed.openPdfs) > 0
             THEN activatePdfTab(removed, removed.openPdfs[1].key)
             ELSE [removed EXCEPT !.pdfViewerSrc = Empty]
        ELSE removed

\* closeBtn.onclick of a tab recreated by restoreStateFromSession
restoredClose(pg, boxes, tabKey) ==
    LET removed == persistStateToSession([pg EXCEPT !.openPdfs = Delete(@, tabKey)], boxes)
    IN  IF /\ pdfViewerSrcProperty(removed.pdfViewerSrc) # Empty
           /\ Includes(pdfViewerSrcProperty(removed.pdfViewerSrc), tabKey)
        THEN IF Len(removed.openPdfs) > 0
             THEN activatePdfTab(removed, removed.openPdfs[1].key)
             ELSE [removed EXCEPT !.pdfViewerSrc = Empty]
        ELSE removed

(* ------------------------------------------------------------------ *)
(* Floating window manager                                            *)
(* ------------------------------------------------------------------ *)

\* #left-pane with #map-window-dock, #right-pane with #doc-window-dock
Panes == {"left-pane", "right-pane"}

\* the floating windows the model lets exist at a time
MaxWindows == 2

\* the raises the model lets happen: z-index stays below zBase + MaxRaises
MaxRaises == 3

\* const base = 10000 of bringToFront
zBase == 10000

\* the layout the stylesheet gives a pane and a window, in px
PaneWidth == 100

PaneHeight == 200

WinWidth == 60

WinHeight == 90

\* the pointer is at 0 or at Far on either axis
Far == 400

PointerCoords == {0, Far}

\* the bottom margin the drag keeps free
BottomMargin == 30

\* the first window's position and the offset of each further one
CascadeLeft == 20

CascadeTop == 80

CascadeStep == 18

\* a pane too narrow for a window
NarrowWidth == 50

\* a pane too low for a window and the bottom margin
LowHeight == 100

\* the sizes of the page as first laid out
DefaultLayout ==
    [paneWidth |-> PaneWidth, paneHeight |-> PaneHeight, winWidth |-> WinWidth,
     winHeight |-> WinHeight]

\* the sizes a resize of the viewport or of the panes can lead to
Layouts ==
    {[paneWidth |-> pw, paneHeight |-> ph, winWidth |-> WinWidth, winHeight |-> WinHeight] :
        pw \in {PaneWidth, NarrowWidth}, ph \in {PaneHeight, LowHeight}}

NoDrag == [on |-> FALSE]

NoOpen == [called |-> FALSE]

Max(a, b) == IF a > b THEN a ELSE b

Min(a, b) == IF a < b THEN a ELSE b

\* (19\d{2}|20\d{2}) matched in `${ui_label} ${ui_group}`: << >> or <<year>>
getYearFromEntry(entry) ==
    LET str == entry.ui_label \o <<" ">> \o entry.ui_group
        at == {i \in 1..(Len(str) - 3) :
                 /\ <<str[i], str[i + 1]>> \in {<<"1", "9">>, <<"2", "0">>}
                 /\ str[i + 2] \in Digits
                 /\ str[i + 3] \in Digits}
    IN  IF at = {} THEN << >>
        ELSE LET i == CHOOSE j \in at : \A k \in at : j <= k
             IN  <<SubSeq(str, i, i + 3)>>

\* the keys of the windows the buttons of a pane open: metadata and provenance
\* of each mosaic year in the left pane once the imagery feed has built the
\* buttons, the collection provenance in the right pane
WindowKeys(p) ==
    IF p = "left-pane"
    THEN IF ~imageryLoaded THEN {}
         ELSE UNION {
                {<<"m","o","s","a","i","c","-","m","e","t","a","-">> \o y,
                 <<"m","o","s","a","i","c","-","p","r","o","v","-">> \o y}
                : y \in {getYearFromEntry(imageryRows[i])[1] :
                            i \in {j \in 1..Len(imageryRows) :
                                      getYearFromEntry(imageryRows[j]) # << >>}}}
    ELSE {<<"a","r","c","h","i","v","e","-","c","o","l","l","e","c","t","i","o","n","-",
            "p","r","o","v","e","n","a","n","c","e">>}

\* document.querySelectorAll('.floating-window'): every window of the page
AllWindows(fw) == UNION {{fw[p][i] : i \in 1..Len(fw[p])} : p \in Panes}

\* the highest z-index bringToFront finds, base at least
maxZ(fw) ==
    LET zs == {w.zIndex : w \in AllWindows(fw)} \cup {zBase}
    IN  CHOOSE z \in zs : \A y \in zs : y <= z

\* the index in the pane of the window with the key, 0 if there is none
IndexOf(fw, p, key) ==
    IF \E i \in 1..Len(fw[p]) : fw[p][i].key = key
    THEN CHOOSE i \in 1..Len(fw[p]) : fw[p][i].key = key
    ELSE 0

\* a bringToFront that looks at the windows of the window's own pane only
bringToFrontInPane(fw, p, i) ==
    LET zs == {fw[p][j].zIndex : j \in 1..Len(fw[p])} \cup {zBase}
    IN  [fw EXCEPT ![p][i].zIndex = (CHOOSE z \in zs : \A y \in zs : y <= z) + 1]

\* a bringToFront that looks at the other windows only, not at the window itself
bringToFrontAboveOthers(fw, p, i) ==
    LET zs == {fw[q][j].zIndex : <<q, j>> \in
                    {<<q, j>> \in UNION {{<<r, k>> : k \in 1..Len(fw[r])} : r \in Panes} :
                        <<q, j>> # <<p, i>>}} \cup {zBase}
    IN  [fw EXCEPT ![p][i].zIndex = (CHOOSE z \in zs : \A y \in zs : y <= z) + 1]

\* bringToFront(winEl) for the window at index i of pane p
bringToFront(fw, p, i) == [fw EXCEPT ![p][i].zIndex = maxZ(fw) + 1]

\* the window manager's state as one record
Win == [fw |-> floatingWindows, buttons |-> dockButtons, display |-> dockDisplay]

CommitWin(w) ==
    /\ floatingWindows' = w.fw
    /\ dockButtons' = w.buttons
    /\ dockDisplay' = w.display

\* b.remove() of the dock button with the key, if there is one
removeButton(w, p, key) ==
    [w EXCEPT !.buttons[p] = SelectSeq(@, LAMBDA k : k # key)]

\* ensureDockVisible(dockEl)
ensureDockVisible(w, p) == [w EXCEPT !.display[p] = "flex"]

\* a maybeHideDock that leaves the dock as it is
keepDock(w, p) == w

\* maybeHideDock(dockEl)
maybeHideDock(w, p) ==
    IF Len(w.buttons[p]) = 0 THEN [w EXCEPT !.display[p] = "none"] ELSE w

\* openFloatingWindow without the look-up of an existing window of the key
openFloatingWindowNew(w, p, key, type) ==
    LET count == Len(w.fw[p])
        winEl == [key |-> key, type |-> type, display |-> "flex", zIndex |-> 0,
                  body |-> IF type = "html" THEN "loading" ELSE "pdf",
                  left |-> CascadeLeft + count * CascadeStep,
                  top |-> CascadeTop + count * CascadeStep,
                  initial |-> <<CascadeLeft + count * CascadeStep,
                                CascadeTop + count * CascadeStep>>]
    IN  [w EXCEPT !.fw = bringToFront([w.fw EXCEPT ![p] = Append(@, winEl)], p, count + 1)]

\* openFloatingWindow that shows and raises an existing window but leaves the dock alone
openFloatingWindowKeepsDock(w, p, key, type) ==
    LET i == IndexOf(w.fw, p, key)
    IN  IF i # 0
        THEN [w EXCEPT !.fw = bringToFront([w.fw EXCEPT ![p][i].display = "flex"], p, i)]
        ELSE openFloatingWindowNew(w, p, key, type)

\* openFloatingWindow({key, paneEl, dockEl, type})
openFloatingWindow(w, p, key, type) ==
    LET i == IndexOf(w.fw, p, key)
    IN  IF i # 0
        THEN LET shown == [w EXCEPT !.fw = bringToFront([w.fw EXCEPT ![p][i].display = "flex"], p, i)]
             IN  IF \E j \in 1..Len(w.buttons[p]) : w.buttons[p][j] = key
                 THEN maybeHideDock(removeButton(shown, p, key), p)
                 ELSE shown
        ELSE LET count == Len(w.fw[p])
                 winEl == [key |-> key, type |-> type, display |-> "flex", zIndex |-> 0,
                           body |-> IF type = "html" THEN "loading" ELSE "pdf",
                           left |-> CascadeLeft + count * CascadeStep,
                           top |-> CascadeTop + count * CascadeStep,
                           initial |-> <<CascadeLeft + count * CascadeStep,
                                         CascadeTop + count * CascadeStep>>]
                 added == [w.fw EXCEPT ![p] = Append(@, winEl)]
             IN  [w EXCEPT !.fw = bringToFront(added, p, count + 1)]

\* closeBtn.onclick
closeWindow(w, p, key) ==
    maybeHideDock(
        [removeButton(w, p, key) EXCEPT !.fw[p] = SelectSeq(@, LAMBDA e : e.key # key)], p)

\* minimizeBtn.onclick
minimizeWindow(w, p, key) ==
    LET i == IndexOf(w.fw, p, key)
        hidden == ensureDockVisible([w EXCEPT !.fw[p][i].display = "none"], p)
    IN  IF \E j \in 1..Len(w.buttons[p]) : w.buttons[p][j] = key THEN hidden
        ELSE [hidden EXCEPT !.buttons[p] = Append(@, key)]

\* dockBtn.onclick
restoreWindow(w, p, key) ==
    LET i == IndexOf(w.fw, p, key)
        shown == [w EXCEPT !.fw = bringToFront([w.fw EXCEPT ![p][i].display = "flex"], p, i)]
    IN  maybeHideDock(removeButton(shown, p, key), p)

\* _mosaicWorkbookLoading = null
NoPromise == 0

\* the workbook XLSX.read returns
Workbook == <<"w","o","r","k","b","o","o","k">>

\* the fetches of the workbook the model lets a page issue
MaxFetches == 2

\* the workbook cache as one record
Book == [workbook |-> mosaicWorkbook, loading |-> mosaicWorkbookLoading, fetches |-> fetches]

CommitBook(bk) ==
    /\ mosaicWorkbook' = bk.workbook
    /\ mosaicWorkbookLoading' = bk.loading
    /\ fetches' = bk.fetches

\* a loadMosaicWorkbook that fetches whenever the workbook is not cached
loadMosaicWorkbookEachTime(bk) ==
    IF bk.workbook # Null THEN [book |-> bk, promise |-> NoPromise]
    ELSE [book |-> [bk EXCEPT !.fetches = Append(@, "pending"), !.loading = Len(bk.fetches) + 1],
          promise |-> Len(bk.fetches) + 1]

\* loadMosaicWorkbook(): the cache it leaves and the promise it returns, as the
\* number of the fetch that settles it; NoPromise if it returns the workbook
loadMosaicWorkbook(bk) ==
    IF bk.workbook # Null THEN [book |-> bk, promise |-> NoPromise]
    ELSE IF bk.loading # NoPromise THEN [book |-> bk, promise |-> bk.loading]
    ELSE [book |-> [bk EXCEPT !.fetches = Append(@, "pending"), !.loading = Len(bk.fetches) + 1],
          promise |-> Len(bk.fetches) + 1]

\* `mosaic-meta-${year}`
IsMetaKey(key) == SubSeq(key, 1, 12) = <<"m","o","s","a","i","c","-","m","e","t","a","-">>

\* a completion that writes the body and shows the window again
setBodyShowing(fw, keys, html) ==
    [fw EXCEPT !["left-pane"] =
        [i \in 1..Len(fw["left-pane"]) |->
            IF fw["left-pane"][i].key \in keys
            THEN [fw["left-pane"][i] EXCEPT !.body = html, !.display = "flex"]
            ELSE fw["left-pane"][i]]]

\* winEl.querySelector('.floating-body').innerHTML = html, for the windows of
\* the left pane with a key of keys
setBody(fw, keys, html) ==
    [fw EXCEPT !["left-pane"] =
        [i \in 1..Len(fw["left-pane"]) |->
            IF fw["left-pane"][i].key \in keys
            THEN [fw["left-pane"][i] EXCEPT !.body = html]
            ELSE fw["left-pane"][i]]]

\* what the promise of fetch n settles the awaiting calls with: the rendered
\* sheet or the error message, "" while it is pending
Outcome(fs, n) ==
    IF fs[n] = "fulfilled" THEN "sheet" ELSE IF fs[n] = "rejected" THEN "error" ELSE ""

\* openMosaicMetadataWindow(year) up to its await: the window with key is
\* opened, loadMosaicWorkbook is called; the body is written at once if the
\* promise is settled, and the call is suspended otherwise
openMosaicMetadataWindow(w, bk, aw, key) ==
    LET opened == openFloatingWindow(w, "left-pane", key, "html")
        call == loadMosaicWorkbook(bk)
        html == IF call.promise = NoPromise THEN "sheet"
                ELSE Outcome(call.book.fetches, call.promise)
    IN  [win |-> IF html = "" THEN opened
                 ELSE [opened EXCEPT !.fw = setBody(@, {key}, html)],
         book |-> call.book,
         awaiting |-> IF html = "" THEN aw \cup {[key |-> key, fetch |-> call.promise,
                                                   attached |-> TRUE]}
                      ELSE aw]

\* the awaiting calls after the window with the key was removed from the page
detach(aw, key) ==
    {IF r.key = key THEN [r EXCEPT !.attached = FALSE] ELSE r : r \in aw}

\* a raise is within the model's bound
CanRaise == maxZ(floatingWindows) < zBase + MaxRaises

\* one pointer: no button is clicked while a drag is in progress
Idle == ~drag.on

\* a button of the page opens the PDF window key of pane p: a provenance
\* document, or the collection of the archive
OpenWindow(p, key) ==
    /\ Idle
    /\ key \in WindowKeys(p)
    /\ ~IsMetaKey(key)
    /\ CanRaise
    /\ IndexOf(floatingWindows, p, key) # 0 \/ Cardinality(AllWindows(floatingWindows)) < MaxWindows
    /\ CommitWin(openFloatingWindow(Win, p, key, "pdf"))
    /\ lastOpen' = [called |-> TRUE, pane |-> p, key |-> key,
                    existing |-> IndexOf(floatingWindows, p, key) # 0,
                    hidden |-> \E j \in 1..Len(dockButtons[p]) : dockButtons[p][j] = key,
                    count |-> Len(floatingWindows[p])]
    /\ UNCHANGED <<drag, layout, pageVars, envVars, appliedOnce, bookVars>>

\* the Metadata button of a mosaic opens the window key of the left pane and
\* asks for the workbook
OpenMetadataWindow(key) ==
    /\ Idle
    /\ key \in WindowKeys("left-pane")
    /\ IsMetaKey(key)
    /\ CanRaise
    /\ IndexOf(floatingWindows, "left-pane", key) # 0
          \/ Cardinality(AllWindows(floatingWindows)) < MaxWindows
    /\ LET opened == openMosaicMetadataWindow(Win, Book, awaiting, key)
       IN  /\ Len(opened.book.fetches) <= MaxFetches
           /\ CommitWin(opened.win)
           /\ CommitBook(opened.book)
           /\ awaiting' = opened.awaiting
    /\ lastOpen' = [called |-> TRUE, pane |-> "left-pane", key |-> key,
                    existing |-> IndexOf(floatingWindows, "left-pane", key) # 0,
                    hidden |-> \E j \in 1..Len(dockButtons["left-pane"]) :
                                  dockButtons["left-pane"][j] = key,
                    count |-> Len(floatingWindows["left-pane"])]
    /\ UNCHANGED <<drag, layout, pageVars, envVars, appliedOnce>>

\* mousedown inside a visible window, outside its header
MouseDownWindow(p, key) ==
    /\ Idle
    /\ CanRaise
    /\ IndexOf(floatingWindows, p, key) # 0
    /\ floatingWindows[p][IndexOf(floatingWindows, p, key)].display = "flex"
    /\ floatingWindows' = bringToFront(floatingWindows, p, IndexOf(floatingWindows, p, key))
    /\ lastOpen' = NoOpen
    /\ UNCHANGED <<dockButtons, dockDisplay, drag, layout, pageVars, envVars, appliedOnce, bookVars>>

\* click on the minimize button of a visible window
MinimizeWindow(p, key) ==
    /\ Idle
    /\ IndexOf(floatingWindows, p, key) # 0
    /\ floatingWindows[p][IndexOf(floatingWindows, p, key)].display = "flex"
    /\ CommitWin(minimizeWindow(Win, p, key))
    /\ lastOpen' = NoOpen
    /\ UNCHANGED <<drag, layout, pageVars, envVars, appliedOnce, bookVars>>

\* click on a dock button
RestoreWindow(p, key) ==
    /\ Idle
    /\ CanRaise
    /\ \E j \in 1..Len(dockButtons[p]) : dockButtons[p][j] = key
    /\ CommitWin(restoreWindow(Win, p, key))
    /\ lastOpen' = NoOpen
    /\ UNCHANGED <<drag, layout, pageVars, envVars, appliedOnce, bookVars>>

\* click on the close button of a visible window
CloseWindow(p, key) ==
    /\ Idle
    /\ IndexOf(floatingWindows, p, key) # 0
    /\ floatingWindows[p][IndexOf(floatingWindows, p, key)].display = "flex"
    /\ CommitWin(closeWindow(Win, p, key))
    /\ awaiting' = detach(awaiting, key)
    /\ lastOpen' = NoOpen
    /\ UNCHANGED <<drag, layout, pageVars, envVars, appliedOnce, mosaicWorkbook, mosaicWorkbookLoading, fetches>>

\* the fetch n of the workbook succeeds and XLSX.read returns: the workbook is
\* cached, and the calls that await the promise render their sheet
WorkbookLoaded(n) ==
    /\ n \in 1..Len(fetches)
    /\ fetches[n] = "pending"
    /\ fetches' = [fetches EXCEPT ![n] = "fulfilled"]
    /\ mosaicWorkbook' = Workbook
    /\ awaiting' = {r \in awaiting : r.fetch # n}
    /\ floatingWindows' =
          setBody(floatingWindows, {r.key : r \in {a \in awaiting : a.fetch = n /\ a.attached}},
                  "sheet")
    /\ UNCHANGED <<mosaicWorkbookLoading, dockButtons, dockDisplay, drag, lastOpen, layout,
                   pageVars, envVars, appliedOnce>>

\* the fetch n of the workbook fails, by the network, by its status or in
\* XLSX.read: the catch handler clears the pending marker, and the calls that
\* await the promise show the error
WorkbookFailed(n) ==
    /\ n \in 1..Len(fetches)
    /\ fetches[n] = "pending"
    /\ fetches' = [fetches EXCEPT ![n] = "rejected"]
    /\ mosaicWorkbookLoading' = NoPromise
    /\ awaiting' = {r \in awaiting : r.fetch # n}
    /\ floatingWindows' =
          setBody(floatingWindows, {r.key : r \in {a \in awaiting : a.fetch = n /\ a.attached}},
                  "error")
    /\ UNCHANGED <<mosaicWorkbook, dockButtons, dockDisplay, drag, lastOpen, layout,
                   pageVars, envVars, appliedOnce>>

\* mousedown on the header of a visible window at (x, y): onDown, then the
\* window's own mousedown listener as the event bubbles
HeaderMouseDown(p, key, x, y) ==
    /\ Idle
    /\ maxZ(floatingWindows) + 1 < zBase + MaxRaises
    /\ IndexOf(floatingWindows, p, key) # 0
    /\ LET i == IndexOf(floatingWindows, p, key)
       IN  /\ floatingWindows[p][i].display = "flex"
           /\ drag' = [on |-> TRUE, pane |-> p, key |-> key, startX |-> x, startY |-> y,
                       startLeft |-> floatingWindows[p][i].left,
                       startTop |-> floatingWindows[p][i].top]
           /\ floatingWindows' = bringToFront(bringToFront(floatingWindows, p, i), p, i)
    /\ lastOpen' = NoOpen
    /\ UNCHANGED <<dockButtons, dockDisplay, layout, pageVars, envVars, appliedOnce, bookVars>>

\* an onMove that clamps against the far edges of the pane only
onMoveUpperClamp(fw, d, l, x, y) ==
    LET i == IndexOf(fw, d.pane, d.key)
        maxLeft == l.paneWidth - l.winWidth
        maxTop == l.paneHeight - l.winHeight - BottomMargin
    IN  [fw EXCEPT ![d.pane][i].left = Min(maxLeft, d.startLeft + (x - d.startX)),
                   ![d.pane][i].top = Min(maxTop, d.startTop + (y - d.startY))]

\* onMove of the drag d with the pointer at (x, y), the sizes being l
onMove(fw, d, l, x, y) ==
    LET i == IndexOf(fw, d.pane, d.key)
        maxLeft == l.paneWidth - l.winWidth
        maxTop == l.paneHeight - l.winHeight - BottomMargin
        newLeft == Max(0, Min(maxLeft, d.startLeft + (x - d.startX)))
        newTop == Max(0, Min(maxTop, d.startTop + (y - d.startY)))
    IN  [fw EXCEPT ![d.pane][i].left = newLeft, ![d.pane][i].top = newTop]

\* the pointer moves to (x, y): onMove runs if a drag has registered it, and
\* nothing listens otherwise
MouseMove(x, y) ==
    /\ IF drag.on
       THEN /\ floatingWindows' = onMove(floatingWindows, drag, layout, x, y)
            /\ lastOpen' = NoOpen
       ELSE UNCHANGED <<floatingWindows, lastOpen>>
    /\ UNCHANGED <<dockButtons, dockDisplay, drag, layout, pageVars, envVars, appliedOnce, bookVars>>

\* the viewport or the panes are resized: the sizes become those of l
ResizeLayout(l) ==
    /\ l # layout
    /\ layout' = l
    /\ UNCHANGED <<floatingWindows, dockButtons, dockDisplay, drag, lastOpen, pageVars, envVars, appliedOnce, bookVars>>

\* mouseup: onUp
MouseUp ==
    /\ drag.on
    /\ drag' = NoDrag
    /\ lastOpen' = NoOpen
    /\ UNCHANGED <<floatingWindows, dockButtons, dockDisplay, layout, pageVars, envVars, appliedOnce, bookVars>>

(* ------------------------------------------------------------------ *)
(* Events                                                             *)
(* ------------------------------------------------------------------ *)

\* checkboxes that exist before the imagery feed has built them
BoxesAlways == CheckboxIds(imageryRows)

\* the ids of the checkboxes that exist in the page
Boxes == IF imageryLoaded THEN CheckboxIds(imageryRows) ELSE << >>

\* the variables of the page take the values of the record pg
Commit(pg) ==
    /\ checked' = pg.checked
    /\ onMap' = pg.onMap
    /\ openPdfs' = pg.openPdfs
    /\ activePdfKey' = pg.activePdfKey
    /\ pdfViewerSrc' = pg.pdfViewerSrc
    /\ sessionStore' = pg.sessionStore
    /\ overlays' = pg.overlays

\* def === 'true' || def === 'yes' || def === '1'
DefaultOn(row) ==
    ToLowerCase(row.default_on) \in {<<"t","r","u","e">>, <<"y","e","s">>, <<"1">>}

\* the rule that force-enables an entry whose label or url contains "imagery"
MatchesImagery(row) ==
    \/ Includes(ToLowerCase(row.ui_label), <<"i","m","a","g","e","r","y">>)
    \/ Includes(ToLowerCase(row.url), <<"i","m","a","g","e","r","y">>)
    \/ Includes(ToLowerCase(row.url), <<"i","m","a","g","e","r","y","l","a","b","e","l","s">>)

RECURSIVE forceEnable(_, _, _)
\* rows.forEach(entry => ...) after the checkboxes are built; todo are the rows left
forceEnable(pg, rows, todo) ==
    IF Len(todo) = 0 THEN pg
    ELSE forceEnable(
            IF MatchesImagery(todo[1])
            THEN checkAndDispatch(pg, rows, CheckboxIds(rows), todo[1].ui_label)
            ELSE pg,
            rows, Tail(todo))

\* the page as the imagery feed's handler leaves it before it calls restore:
\* the checkboxes built with their defaults, Street Overlay enabled, the
\* "imagery" entries force-enabled
imageryBuilt(pg, rows) ==
    LET defaults == {rows[i].ui_label : i \in {j \in 1..Len(rows) : DefaultOn(rows[j])}}
        registered == (StreetOverlay :> Layer("tiledMapLayer"))
                        @@ addLayers(pg.overlays, rows, ctorThrows).overlays
        built == enableLayer([pg EXCEPT !.checked = {StreetOverlay} \cup defaults,
                                        !.overlays = registered],
                             rows, StreetOverlay)
    IN  forceEnable(built, rows, rows)

\* startup once the user has clicked something
UserActed == [quiet |-> FALSE, hadBoxes |-> FALSE, layers |-> {}, tabs |-> << >>]

\* the page when its script has run: the feed file holds rows, the layer
\* constructors throw for the entries in throwing, the session store holds
\* store and throws or not
InitWith(rows, throwing, store, storeFails) ==
    /\ imageryRows = rows
    /\ imageryLoaded = FALSE
    /\ archiveData = << >>
    /\ archiveLoaded = FALSE
    /\ checked = {}
    /\ onMap = {<<OSM, "layer">>}
    /\ pendingEnable = {}
    /\ openPdfs = << >>
    /\ activePdfKey = Null
    /\ pdfViewerSrc = Empty
    /\ sessionStore = store
    /\ startup = [quiet |-> TRUE, hadBoxes |-> FALSE, layers |-> {}, tabs |-> << >>]
    /\ floatingWindows = [p \in Panes |-> << >>]
    /\ dockButtons = [p \in Panes |-> << >>]
    /\ dockDisplay = [p \in Panes |-> "none"]
    /\ drag = NoDrag
    /\ lastOpen = NoOpen
    /\ layout = DefaultLayout
    /\ overlays = (OSM :> Layer("tileLayer"))
    /\ ctorThrows = throwing
    /\ storeThrows = storeFails
    /\ mosaicWorkbook = Null
    /\ mosaicWorkbookLoading = NoPromise
    /\ fetches = << >>
    /\ awaiting = {}
    /\ appliedOnce = Undefined

Init == \E rows \in ImageryFeeds : InitWith(rows, {}, << >>, {})

\* fetch('static/data/imagery.json') resolves and its handler runs
ImageryFeedLoaded ==
    /\ ~imageryLoaded
    /\ ~addLayers(overlays, imageryRows, ctorThrows).raised
    /\ imageryLoaded' = TRUE
    /\ pendingEnable' =
          {imageryRows[i].ui_label : i \in {j \in 1..Len(imageryRows) : DefaultOn(imageryRows[j])}}
    /\ Commit(restoreStateFromSession(imageryBuilt(Page, imageryRows), imageryRows,
                                      CheckboxIds(imageryRows), archiveData))
    /\ UNCHANGED <<imageryRows, archiveData, archiveLoaded, startup, winVars, envVars, appliedOnce, bookVars>>

\* fetch('static/data/archive.json') resolves and its handler runs
ArchiveFeedLoaded ==
    /\ ~archiveLoaded
    /\ archiveLoaded' = TRUE
    /\ archiveData' = ArchiveRows
    /\ Commit(restoreStateFromSession(Page, imageryRows, Boxes, ArchiveRows))
    /\ UNCHANGED <<imageryRows, imageryLoaded, pendingEnable, startup, winVars, envVars, appliedOnce, bookVars>>

\* the timer of a default-on entry fires: enableLayer(id)
TimerFires(id) ==
        /\ id \in pendingEnable
        /\ pendingEnable' = pendingEnable \ {id}
        /\ Commit(enableLayer(Page, imageryRows, id))
        /\ UNCHANGED <<imageryRows, imageryLoaded, archiveData, archiveLoaded, startup, winVars, envVars, appliedOnce, bookVars>>

\* the user clicks an overlay checkbox
Toggle(id) ==
    /\ imageryLoaded
    /\ \E i \in 1..Len(Boxes) : Boxes[i] = id
    /\ Commit(onChange([Page EXCEPT !.checked =
                            IF id \in checked THEN checked \ {id} ELSE checked \cup {id}],
                       imageryRows, id))
    /\ startup' = UserActed
    /\ UNCHANGED <<imageryRows, imageryLoaded, archiveData, archiveLoaded, pendingEnable,
                   winVars, envVars, appliedOnce, bookVars>>

\* svc !== 'basemap' && svc !== 'vector-street': the entry gets an opacity slider
HasSlider(row) ==
    ToLowerCase(row.service_type)
        \notin {<<"b","a","s","e","m","a","p">>, <<"v","e","c","t","o","r","-","s","t","r","e","e","t">>}

\* the user moves the opacity slider of a checked feed entry to v: the slider
\* is disabled while the entry's checkbox is unchecked
SetOpacity(id, v) ==
    /\ imageryLoaded
    /\ \E i \in 1..Len(imageryRows) : imageryRows[i].ui_label = id /\ HasSlider(imageryRows[i])
    /\ id \in checked
    /\ Commit(setLayerOpacity(Page, id, v))
    /\ startup' = UserActed
    /\ UNCHANGED <<imageryRows, imageryLoaded, archiveData, archiveLoaded, pendingEnable,
                   winVars, envVars, appliedOnce, bookVars>>

\* the user picks a document of the archive and clicks "open in app"
OpenPdfInApp(row) ==
    /\ archiveLoaded
    /\ Len(openPdfs) < MaxTabs
    /\ \E i \in 1..Len(archiveData) : archiveData[i] = row
    /\ Commit(openPdfInTab(Page, Boxes, row.filename,
                           pdfUrl(<<row.ui_group, row.filename>>), Trim(row.ui_label_2)))
    /\ startup' = UserActed
    /\ UNCHANGED <<imageryRows, imageryLoaded, archiveData, archiveLoaded, pendingEnable,
                   winVars, envVars, appliedOnce, bookVars>>

\* the user clicks a tab
ClickTab(k) ==
    /\ k \in Keys(openPdfs)
    /\ Commit(activatePdfTab(Page, k))
    /\ startup' = UserActed
    /\ UNCHANGED <<imageryRows, imageryLoaded, archiveData, archiveLoaded, pendingEnable,
                   winVars, envVars, appliedOnce, bookVars>>

\* the user clicks the close button of a tab opened by openPdfInTab
CloseOpenedTab(k) ==
    /\ k \in Keys(openPdfs)
    /\ ~Entry(openPdfs, k).restored
    /\ Commit(closePdfTab(Page, Boxes, k))
    /\ startup' = UserActed
    /\ UNCHANGED <<imageryRows, imageryLoaded, archiveData, archiveLoaded, pendingEnable,
                   winVars, envVars, appliedOnce, bookVars>>

\* the user clicks the close button of a tab recreated by restoreStateFromSession
CloseRestoredTab(k) ==
    /\ k \in Keys(openPdfs)
    /\ Entry(openPdfs, k).restored
    /\ Commit(restoredClose(Page, Boxes, k))
    /\ startup' = UserActed
    /\ UNCHANGED <<imageryRows, imageryLoaded, archiveData, archiveLoaded, pendingEnable,
                   winVars, envVars, appliedOnce, bookVars>>

\* the page is reloaded: beforeunload persists, then the script starts afresh
\* with the session store kept
Reload ==
    /\ sessionStore' = persistStateToSession(Page, Boxes).sessionStore
    /\ imageryLoaded' = FALSE
    /\ archiveData' = << >>
    /\ archiveLoaded' = FALSE
    /\ checked' = {}
    /\ onMap' = {<<OSM, "layer">>}
    /\ pendingEnable' = {}
    /\ openPdfs' = << >>
    /\ activePdfKey' = Null
    /\ pdfViewerSrc' = Empty
    /\ startup' = [quiet |-> TRUE, hadBoxes |-> imageryLoaded, layers |-> checked,
                    tabs |-> [i \in 1..Len(openPdfs) |-> openPdfs[i].key]]
    /\ floatingWindows' = [p \in Panes |-> << >>]
    /\ dockButtons' = [p \in Panes |-> << >>]
    /\ dockDisplay' = [p \in Panes |-> "none"]
    /\ drag' = NoDrag
    /\ lastOpen' = NoOpen
    /\ overlays' = (OSM :> Layer("tileLayer"))
    /\ mosaicWorkbook' = Null
    /\ mosaicWorkbookLoading' = NoPromise
    /\ fetches' = << >>
    /\ awaiting' = {}
    /\ appliedOnce' = Undefined
    /\ UNCHANGED <<imageryRows, layout, envVars>>

\* the ways sessionStorage fails: setItem throws (the quota is exceeded), or
\* every access throws (the storage is blocked)
StoreFailures == {{"setItem"}, {"getItem", "setItem"}}

\* the iframe of the viewer
Viewer == [src |-> pdfViewerSrc, appliedOnce |-> appliedOnce]

\* the viewer fires a load event and its listener runs
ViewerLoad ==
    /\ pdfViewerSrc' = loadListener(Viewer).src
    /\ appliedOnce' = loadListener(Viewer).appliedOnce
    /\ UNCHANGED <<imageryRows, imageryLoaded, archiveData, archiveLoaded, checked, onMap,
                   pendingEnable, openPdfs, activePdfKey, sessionStore, startup, overlays,
                   winVars, envVars, bookVars>>

\* the methods of sessionStorage that throw become throws: the user blocks or
\* unblocks the site's storage, the quota is reached or freed
StoreAvailability(throws) ==
    /\ throws # storeThrows
    /\ storeThrows' = throws
    /\ UNCHANGED <<pageVars, winVars, ctorThrows, bookVars, appliedOnce>>

\* the ids an overlay checkbox can carry
OverlayIds == {StreetOverlay, OSM} \cup {imageryRows[i].ui_label : i \in 1..Len(imageryRows)}

\* the keys of the open tabs
OpenKeys == Keys(openPdfs)

\* the rows the document selector offers
ArchiveRowSet == {archiveData[i] : i \in 1..Len(archiveData)}

Next ==
    \/ ImageryFeedLoaded
    \/ ArchiveFeedLoaded
    \/ \E id \in pendingEnable : TimerFires(id)
    \/ \E id \in OverlayIds : Toggle(id)
    \/ \E id \in OverlayIds : \E v \in SliderValues : SetOpacity(id, v)
    \/ \E row \in ArchiveRowSet : OpenPdfInApp(row)
    \/ \E k \in OpenKeys : ClickTab(k)
    \/ \E k \in OpenKeys : CloseOpenedTab(k)
    \/ \E k \in OpenKeys : CloseRestoredTab(k)
    \/ Reload
    \/ \E p \in Panes : \E key \in WindowKeys(p) : OpenWindow(p, key)
    \/ \E p \in Panes : \E key \in WindowKeys(p) : MouseDownWindow(p, key)
    \/ \E p \in Panes : \E key \in WindowKeys(p) : MinimizeWindow(p, key)
    \/ \E p \in Panes : \E key \in WindowKeys(p) : RestoreWindow(p, key)
    \/ \E p \in Panes : \E key \in WindowKeys(p) : CloseWindow(p, key)
    \/ \E p \in Panes : \E key \in WindowKeys(p) : \E x, y \in PointerCoords :
            HeaderMouseDown(p, key, x, y)
    \/ \E x, y \in PointerCoords : MouseMove(x, y)
    \/ MouseUp
    \/ \E l \in Layouts : ResizeLayout(l)
    \/ \E key \in WindowKeys("left-pane") : OpenMetadataWindow(key)
    \/ \E n \in 1..MaxFetches : WorkbookLoaded(n)
    \/ \E n \in 1..MaxFetches : WorkbookFailed(n)
    \/ ViewerLoad
    \/ \E throws \in StoreFailures \cup {{}} : StoreAvailability(throws)

Spec == Init /\ [][Next]_vars

\* the tab manager with the session store: the feeds, the tab events, the reload
NextTabs ==
    \/ ImageryFeedLoaded
    \/ ArchiveFeedLoaded
    \/ \E row \in ArchiveRowSet : OpenPdfInApp(row)
    \/ \E k \in OpenKeys : ClickTab(k)
    \/ \E k \in OpenKeys : CloseOpenedTab(k)
    \/ \E k \in OpenKeys : CloseRestoredTab(k)
    \/ Reload

SpecTabs == Init /\ [][NextTabs]_vars

\* the tab keys: the archive feed with its restore run, the opening and the
\* closing of tabs, the reload
NextKeys ==
    \/ ArchiveFeedLoaded
    \/ \E row \in ArchiveRowSet : OpenPdfInApp(row)
    \/ \E k \in OpenKeys : CloseOpenedTab(k)
    \/ \E k \in OpenKeys : CloseRestoredTab(k)
    \/ Reload

SpecKeys == Init /\ [][NextKeys]_vars

\* the viewer: the archive feed, the tab events that assign the source, the
\* load events
NextViewer ==
    \/ ArchiveFeedLoaded
    \/ \E row \in ArchiveRowSet : OpenPdfInApp(row)
    \/ \E k \in OpenKeys : ClickTab(k)
    \/ \E k \in OpenKeys : CloseOpenedTab(k)
    \/ ViewerLoad

SpecViewer == Init /\ [][NextViewer]_vars

\* the overlay checkboxes with the session store: the feeds, the timers, the
\* toggles, the reload
NextOverlays ==
    \/ ImageryFeedLoaded
    \/ ArchiveFeedLoaded
    \/ \E id \in pendingEnable : TimerFires(id)
    \/ \E id \in OverlayIds : Toggle(id)
    \/ Reload

SpecOverlays == Init /\ [][NextOverlays]_vars

\* the opacity sliders: the feed that builds them, the checkboxes that enable
\* them, the slider moves, the reload
NextOpacity ==
    \/ ImageryFeedLoaded
    \/ \E id \in OverlayIds : Toggle(id)
    \/ \E id \in OverlayIds : \E v \in SliderValues : SetOpacity(id, v)
    \/ Reload

SpecOpacity == Init /\ [][NextOpacity]_vars

\* the overlay store: a feed of one entry of any service kind whose
\* constructor throws or not, the feed's handler, the timers, the toggles, the
\* slider moves, the reload
InitLayers ==
    \E e \in KindEntries : \E throwing \in SUBSET {e.ui_label} :
        InitWith(<<e>>, throwing, << >>, {})

NextLayers ==
    \/ ImageryFeedLoaded
    \/ \E id \in pendingEnable : TimerFires(id)
    \/ \E id \in OverlayIds : Toggle(id)
    \/ \E id \in OverlayIds : \E v \in SliderValues : SetOpacity(id, v)
    \/ Reload

SpecLayers == InitLayers /\ [][NextLayers]_vars

\* the session store with everything that writes it: the feeds with their
\* restore runs, the toggles of two overlays, the opening of one document in
\* tabs and their closing, the reload
NextSession ==
    \/ ImageryFeedLoaded
    \/ ArchiveFeedLoaded
    \/ \E id \in {StreetOverlay, e1924.ui_label} : Toggle(id)
    \/ OpenPdfInApp(ArchiveRows[1])
    \/ \E k \in OpenKeys : CloseOpenedTab(k)
    \/ \E k \in OpenKeys : CloseRestoredTab(k)
    \/ Reload

SpecSession == Init /\ [][NextSession]_vars

\* the blob an earlier session of the page left: every overlay but OSM
\* checked, the first document open in a tab
EarlierBlob(rows) ==
    [enabledLayers |-> SelectSeq(CheckboxIds(rows), LAMBDA id : id # OSM),
     openTabs |-> << [filename |-> ArchiveRows[1].filename,
                      url |-> pdfUrl(<<ArchiveRows[1].ui_group, ArchiveRows[1].filename>>),
                      label |-> Trim(ArchiveRows[1].ui_label_2),
                      aimTitle |-> Trim(ArchiveRows[1].ui_label_2)] >>]

\* the page in a browser whose session store throws, on writes or on every
\* access, the store holding no blob or the blob of an earlier session: the
\* events of the session store
InitStore ==
    \E rows \in ImageryFeeds : \E store \in {<< >>, <<EarlierBlob(rows)>>} :
        \E failing \in StoreFailures : InitWith(rows, {}, store, failing)

NextStore ==
    \/ ImageryFeedLoaded
    \/ ArchiveFeedLoaded
    \/ \E id \in {StreetOverlay, e1924.ui_label} : Toggle(id)
    \/ OpenPdfInApp(ArchiveRows[1])
    \/ \E k \in OpenKeys : ClickTab(k)
    \/ \E k \in OpenKeys : CloseOpenedTab(k)
    \/ \E k \in OpenKeys : CloseRestoredTab(k)
    \/ Reload

SpecStore == InitStore /\ [][NextStore]_vars

\* the floating window manager: the feed that builds the mosaic buttons, the
\* window events, the reload
NextWindows ==
    \/ ImageryFeedLoaded
    \/ Reload
    \/ \E p \in Panes : \E key \in WindowKeys(p) : OpenWindow(p, key)
    \/ \E p \in Panes : \E key \in WindowKeys(p) : MouseDownWindow(p, key)
    \/ \E p \in Panes : \E key \in WindowKeys(p) : MinimizeWindow(p, key)
    \/ \E p \in Panes : \E key \in WindowKeys(p) : RestoreWindow(p, key)
    \/ \E p \in Panes : \E key \in WindowKeys(p) : CloseWindow(p, key)
    \/ \E p \in Panes : \E key \in WindowKeys(p) : \E x, y \in PointerCoords :
            HeaderMouseDown(p, key, x, y)
    \/ \E x, y \in PointerCoords : MouseMove(x, y)
    \/ MouseUp

SpecWindows == Init /\ [][NextWindows]_vars

\* the metadata workbook: the feed that builds the buttons of the mosaics, the
\* opening, minimizing and closing of the windows of the left pane, the
\* settling of the fetches, the reload
NextWorkbook ==
    \/ ImageryFeedLoaded
    \/ \E key \in WindowKeys("left-pane") : OpenMetadataWindow(key)
    \/ \E key \in WindowKeys("left-pane") : MinimizeWindow("left-pane", key)
    \/ \E key \in WindowKeys("left-pane") : CloseWindow("left-pane", key)
    \/ \E n \in 1..MaxFetches : WorkbookLoaded(n)
    \/ \E n \in 1..MaxFetches : WorkbookFailed(n)
    \/ Reload

SpecWorkbook == Init /\ [][NextWorkbook]_vars

\* the dragging of windows: the opening of the windows of the right pane, the
\* pointer on a header, its moves and its release, the resizes
NextDrag ==
    \/ \E key \in WindowKeys("right-pane") : OpenWindow("right-pane", key)
    \/ \E key \in WindowKeys("right-pane") : \E x, y \in PointerCoords :
            HeaderMouseDown("right-pane", key, x, y)
    \/ \E x, y \in PointerCoords : MouseMove(x, y)
    \/ MouseUp
    \/ \E l \in Layouts : ResizeLayout(l)

SpecDrag == Init /\ [][NextDrag]_vars

(* ------------------------------------------------------------------ *)
(* Properties of the tab manager                                      *)
(* ------------------------------------------------------------------ *)

\* the tab keys in insertion order
KeySeq(tabs) == [i \in 1..Len(tabs) |-> tabs[i].key]

\* the tabs whose element carries the class "active"
ActiveTabs == {i \in 1..Len(openPdfs) : openPdfs[i].active}

\* the value of the file parameter in the query of a viewer URL, as encoded
RECURSIVE UpToDelimiter(_)
UpToDelimiter(s) ==
    IF Len(s) = 0 \/ s[1] \in {"&", "#"} THEN Empty ELSE <<s[1]>> \o UpToDelimiter(Tail(s))

FileParam(src) ==
    LET mark == <<"?", "f", "i", "l", "e", "=">>
        at == {i \in 1..(Len(src) - Len(mark) + 1) : SubSeq(src, i, i + Len(mark) - 1) = mark}
    IN  IF at = {} THEN Empty
        ELSE UpToDelimiter(SubSeq(src, (CHOOSE i \in at : \A j \in at : i <= j) + Len(mark),
                                  Len(src)))

\* the viewer shows the document at url
Shows(src, url) == src # Empty /\ FileParam(src) = FormEncode(url)

\* some tab that is the active one is closed in this step, by either close button
ClosesActiveTab ==
    \E k \in OpenKeys : k = activePdfKey /\ (CloseOpenedTab(k) \/ CloseRestoredTab(k))

\* exactly one tab is active, it is the one activePdfKey names; or there is no
\* tab, activePdfKey is cleared and the viewer is blank
OneActiveOrNone ==
    \/ /\ Len(openPdfs) > 0
       /\ Cardinality(ActiveTabs) = 1
       /\ activePdfKey \in OpenKeys
       /\ Entry(openPdfs, activePdfKey).active
    \/ /\ Len(openPdfs) = 0
       /\ activePdfKey = Null
       /\ pdfViewerSrc = Empty

\* C1: closing the active tab, whether it was opened directly or recreated by
\* restore, leaves exactly one remaining tab active, or no tab with activePdfKey
\* cleared and the viewer blank; activePdfKey never names a removed tab
C1_CloseActiveLeavesOneOrNone == [][ClosesActiveTab => OneActiveOrNone']_vars

\* C2: in every reachable state the viewer shows the URL of the entry that
\* activePdfKey names, and it is empty when no tab is active
C2_ViewerShowsActive ==
    \/ activePdfKey = Null /\ pdfViewerSrc = Empty
    \/ activePdfKey \in OpenKeys /\ Shows(pdfViewerSrc, Entry(openPdfs, activePdfKey).url)

\* C4: after a reload, once both feeds have completed (in either order) and no
\* user event has happened, the open tabs are the persisted ones in their order
\* and the first of them is active and shown
C4_TabsRoundTrip ==
    (startup.quiet /\ imageryLoaded /\ archiveLoaded) =>
        /\ KeySeq(openPdfs) = startup.tabs
        /\ Len(startup.tabs) > 0 =>
            /\ activePdfKey = startup.tabs[1]
            /\ Shows(pdfViewerSrc, Entry(openPdfs, startup.tabs[1]).url)

\* the tab table (keys and URLs in order), the active key and the viewer of a page
TabView(tabs, key, src) ==
    <<[i \in 1..Len(tabs) |-> <<tabs[i].key, tabs[i].url>>], key, src>>

\* C5: a step that closes a tab recreated by restore ends in the tab table,
\* active key and viewer source that closePdfTab, the close of a directly
\* opened tab, gives from the same state
C5_RestoredCloseLikeDirect ==
    [][\A k \in OpenKeys :
          CloseRestoredTab(k) =>
              TabView(openPdfs', activePdfKey', pdfViewerSrc')
                = TabView(closePdfTab(Page, Boxes, k).openPdfs,
                          closePdfTab(Page, Boxes, k).activePdfKey,
                          closePdfTab(Page, Boxes, k).pdfViewerSrc)]_vars

\* the key openPdfInTab is to choose: the filename if free, else the filename
\* with the smallest free suffix from 2 on
ExpectedKey(tabs, filename) ==
    IF filename \notin Keys(tabs) THEN filename
    ELSE SuffixedKey(filename,
            CHOOSE n \in 2..(Len(tabs) + 2) :
                /\ SuffixedKey(filename, n) \notin Keys(tabs)
                /\ \A m \in 2..(n - 1) : SuffixedKey(filename, m) \in Keys(tabs))

\* the persisted part of the entries
Persisted(tabs) ==
    [i \in 1..Len(tabs) |-> <<tabs[i].key, tabs[i].url, tabs[i].label, tabs[i].aimTitle>>]

\* C7: openPdfInTab registers the new tab under a key that was not in the
\* table: the filename if free, else filename (n) for the smallest free n >= 2;
\* the entries that were there stay as they were
C7_NewKeyIsFresh ==
    [][\A row \in ArchiveRowSet :
          OpenPdfInApp(row) =>
              /\ Len(openPdfs') = Len(openPdfs) + 1
              /\ openPdfs'[Len(openPdfs')].key \notin OpenKeys
              /\ openPdfs'[Len(openPdfs')].key = ExpectedKey(openPdfs, row.filename)
              /\ Persisted(SubSeq(openPdfs', 1, Len(openPdfs))) = Persisted(openPdfs)
              /\ Cardinality(Keys(openPdfs')) = Len(openPdfs')]_vars

\* the same document is open three times, its second tab was closed and it was
\* opened again: the new tab took the freed suffix 2
W7_FreedSuffixReused ==
    KeySeq(openPdfs) = << <<"R">>, SuffixedKey(<<"R">>, 3), SuffixedKey(<<"R">>, 2) >>

\* C8: closing a tab that is not the active one while other tabs remain leaves
\* the other entries, activePdfKey and the viewer source as they were
C8_CloseInactiveFrame ==
    [][\A k \in OpenKeys :
          (k # activePdfKey /\ Len(openPdfs) > 1 /\ (CloseOpenedTab(k) \/ CloseRestoredTab(k)))
            => /\ openPdfs' = Delete(openPdfs, k)
               /\ activePdfKey' = activePdfKey
               /\ pdfViewerSrc' = pdfViewerSrc]_vars

\* C9: no tab is recreated from the session blob before the archive feed has
\* loaded
C9_NoRestoredTabBeforeArchive ==
    (\E i \in 1..Len(openPdfs) : openPdfs[i].restored) => archiveLoaded

\* C12: when the active tab is closed and other tabs remain, the first of the
\* remaining tabs in insertion order becomes the active tab and is shown
C12_SuccessorIsFirstRemaining ==
    [][\A k \in OpenKeys :
          (k = activePdfKey /\ Len(openPdfs) > 1 /\ (CloseOpenedTab(k) \/ CloseRestoredTab(k)))
            => /\ activePdfKey' = Delete(openPdfs, k)[1].key
               /\ {i \in 1..Len(openPdfs') : openPdfs'[i].active} = {1}
               /\ Shows(pdfViewerSrc', Delete(openPdfs, k)[1].url)]_vars

\* every tab of the blob in store has its key in the tab table
PersistedOpen(store, tabs) ==
    store # << >> /\ \A i \in 1..Len(store[1].openTabs) : store[1].openTabs[i].filename \in Keys(tabs)

\* C28: a restore run by the feed that completes second, which finds every
\* persisted tab already in the tab table, leaves the tab table, the active
\* tab and the viewer source as they were: no tab is added and the tab the
\* user activated since the first run stays the active one
C28_SecondRestoreKeepsTabs ==
    [][(\/ /\ ArchiveFeedLoaded
           /\ imageryLoaded
           /\ PersistedOpen(sessionStore, openPdfs)
        \/ /\ ImageryFeedLoaded
           /\ archiveLoaded
           /\ PersistedOpen(imageryBuilt(Page, imageryRows).sessionStore, openPdfs))
          => /\ openPdfs' = openPdfs
             /\ activePdfKey' = activePdfKey
             /\ pdfViewerSrc' = pdfViewerSrc]_vars

(* ------------------------------------------------------------------ *)
(* Properties of the session persistence                              *)
(* ------------------------------------------------------------------ *)

\* C3: after a reload of a page whose overlay checkboxes existed, once the
\* overlay feed has loaded and restore has run with no user event in between,
\* the checked overlay identifiers are exactly those checked at the reload
C3_LayersRoundTrip ==
    (startup.quiet /\ startup.hadBoxes /\ imageryLoaded) => checked = startup.layers

\* the checkbox lookups a run of restoreStateFromSession makes: one for each
\* persisted overlay identifier
layerLookups(pg) == IF pg.sessionStore = << >> THEN 0 ELSE Len(pg.sessionStore[1].enabledLayers)

C11_PersistedLayersEnabled ==
    (startup.quiet /\ startup.hadBoxes /\ imageryLoaded /\ pendingEnable = {}) =>
        \A id \in startup.layers \cap {imageryRows[i].ui_label : i \in 1..Len(imageryRows)} :
            /\ id \in checked
            /\ LayersOf(overlays, id) \subseteq onMap

\* the blob persistStateToSession writes for the page as it is
CurrentBlob == persistStateToSession(Page, Boxes).sessionStore

\* C13: after every completed overlay toggle, tab open and tab close (the close
\* of a restored tab included) the stored blob is the one of the current
\* state: the checked overlay checkboxes and the open tab keys in their order
C13_BlobIsCurrentState ==
    [][((\E id \in OverlayIds : Toggle(id))
            \/ (\E row \in ArchiveRowSet : OpenPdfInApp(row))
            \/ (\E k \in OpenKeys : CloseOpenedTab(k) \/ CloseRestoredTab(k)))
          => /\ sessionStore' # << >>
             /\ {sessionStore'[1].enabledLayers[i] : i \in 1..Len(sessionStore'[1].enabledLayers)}
                   = checked'
             /\ [i \in 1..Len(sessionStore'[1].openTabs) |-> sessionStore'[1].openTabs[i].filename]
                   = KeySeq(openPdfs')]_vars

\* after user events the blob is the one of a page with a recreated tab next to
\* an opened one, the 1924 overlay switched on and the Street Overlay off
W13_BlobOfMixedState ==
    /\ ~startup.quiet
    /\ sessionStore = CurrentBlob
    /\ \E i, j \in 1..Len(openPdfs) : openPdfs[i].restored /\ ~openPdfs[j].restored
    /\ e1924.ui_label \in checked
    /\ StreetOverlay \notin checked

\* C14: persist overwrites and is idempotent: from any page, a second call
\* right after the first leaves the store as the first did; the store then
\* holds one blob, the same as if the store had been empty before, with only
\* the checked identifiers and the open tabs of the page
C14_PersistOverwrites ==
    LET once == persistStateToSession(Page, Boxes)
        twice == persistStateToSession(once, Boxes)
        blob == once.sessionStore[1]
    IN  /\ twice = once
        /\ Len(once.sessionStore) = 1
        /\ once.sessionStore
             = persistStateToSession([Page EXCEPT !.sessionStore = << >>], Boxes).sessionStore
        /\ {blob.enabledLayers[i] : i \in 1..Len(blob.enabledLayers)} = checked
        /\ Len(blob.enabledLayers) = Cardinality(checked)
        /\ [i \in 1..Len(blob.openTabs) |-> blob.openTabs[i].filename] = KeySeq(openPdfs)

\* the store holds the blob of an earlier state: tabs and overlay identifiers
\* that the page no longer has
W14_StaleBlob ==
    /\ sessionStore # << >>
    /\ Len(sessionStore[1].openTabs) > Len(openPdfs)
    /\ \E i \in 1..Len(sessionStore[1].enabledLayers) : sessionStore[1].enabledLayers[i] \notin checked

\* C15: a restore run that finds no blob in the session store changes nothing:
\* the archive feed's handler then leaves the checkboxes, the layers, the tab
\* table, activePdfKey, the viewer source and the store as they were, and the
\* overlay feed's handler leaves the page as its own set-up made it
C15_RestoreWithoutBlobIsNoOp ==
    [][/\ (ArchiveFeedLoaded /\ sessionStore = << >>) => Page' = Page
       /\ (ImageryFeedLoaded /\ imageryBuilt(Page, imageryRows).sessionStore = << >>)
             => Page' = imageryBuilt(Page, imageryRows)]_vars

\* both feeds have loaded and run restore on a page that has overlays checked,
\* and the session store holds no blob
W15_RestoredNothing ==
    /\ archiveLoaded
    /\ imageryLoaded
    /\ sessionStore = << >>
    /\ checked # {}

\* what a page holds in memory: the checkboxes, the layers on the map, the
\* tab table, the active key and the viewer source
InMemory(pg) == <<pg.checked, pg.onMap, pg.openPdfs, pg.activePdfKey, pg.pdfViewerSrc>>

\* the page in a browser whose session store does not throw
Working(pg) == [pg EXCEPT !.storeThrows = {}]

\* the page with the checkbox id flipped, as its change listener finds it
Flipped(pg, id) ==
    [pg EXCEPT !.checked = IF id \in @ THEN @ \ {id} ELSE @ \cup {id}]

\* C25: while the session store throws, persist leaves the page as it is, and
\* so does a restore whose read throws, run by either feed's handler; every
\* overlay toggle, tab open and tab close (of an opened or of a recreated
\* tab) ends with the checkboxes, the layers, the tab table, the active key
\* and the viewer source it ends with when the store works
C25_StoreFailureIsSilent ==
    storeThrows # {} =>
        /\ persistStateToSession(Page, Boxes) = Page
        /\ "getItem" \in storeThrows =>
            /\ restoreStateFromSession(Page, imageryRows, Boxes, archiveData) = Page
            /\ restoreStateFromSession(imageryBuilt(Page, imageryRows), imageryRows,
                                       CheckboxIds(imageryRows), archiveData)
                  = imageryBuilt(Page, imageryRows)
        /\ \A i \in 1..Len(Boxes) :
              InMemory(onChange(Flipped(Page, Boxes[i]), imageryRows, Boxes[i]))
                = InMemory(onChange(Working(Flipped(Page, Boxes[i])), imageryRows, Boxes[i]))
        /\ \A row \in ArchiveRowSet :
              InMemory(openPdfInTab(Page, Boxes, row.filename,
                                    pdfUrl(<<row.ui_group, row.filename>>), Trim(row.ui_label_2)))
                = InMemory(openPdfInTab(Working(Page), Boxes, row.filename,
                                        pdfUrl(<<row.ui_group, row.filename>>),
                                        Trim(row.ui_label_2)))
        /\ \A k \in OpenKeys :
              IF Entry(openPdfs, k).restored
              THEN InMemory(restoredClose(Page, Boxes, k))
                     = InMemory(restoredClose(Working(Page), Boxes, k))
              ELSE InMemory(closePdfTab(Page, Boxes, k))
                     = InMemory(closePdfTab(Working(Page), Boxes, k))

\* setItem throws: the tab of the earlier session was recreated by restore
\* next to a tab the user opened and an overlay the user switched off, and the
\* store still holds the earlier blob
W25_RestoredTabWhileWritesThrow ==
    /\ storeThrows = {"setItem"}
    /\ sessionStore = <<EarlierBlob(imageryRows)>>
    /\ \E i, j \in 1..Len(openPdfs) : openPdfs[i].restored /\ ~openPdfs[j].restored
    /\ StreetOverlay \notin checked
    /\ imageryLoaded

\* C26: when the overlay feed's handler runs on a page the user has not
\* touched since it was loaded, the blob that restore reads at the end of the
\* handler is the one the previous page session left: nothing has written the
\* session store in between
C26_NoPersistBeforeRestore ==
    [][(ImageryFeedLoaded /\ startup.quiet /\ sessionStore # << >>) =>
          imageryBuilt(Page, imageryRows).sessionStore = sessionStore]_vars

(* ------------------------------------------------------------------ *)
(* Properties of the floating windows                                 *)
(* ------------------------------------------------------------------ *)

\* the windows of pane p that carry the key
WindowsOf(p, key) == {i \in 1..Len(floatingWindows[p]) : floatingWindows[p][i].key = key}

UniqueKeys ==
    \A p \in Panes : \A i, j \in 1..Len(floatingWindows[p]) :
        floatingWindows[p][i].key = floatingWindows[p][j].key => i = j

\* after openFloatingWindow found a window of the key: the pane has as many
\* windows as before, one of them has the key, it is displayed and its z-index
\* is above that of every other window of the page
ReopenedInFront ==
    LET p == lastOpen.pane
        i == IndexOf(floatingWindows, p, lastOpen.key)
    IN  /\ Len(floatingWindows[p]) = lastOpen.count
        /\ Cardinality(WindowsOf(p, lastOpen.key)) = 1
        /\ floatingWindows[p][i].display = "flex"
        /\ \A w \in AllWindows(floatingWindows) \ {floatingWindows[p][i]} :
              w.zIndex < floatingWindows[p][i].zIndex

\* C6: whatever windows were opened, minimized, restored from the dock, closed
\* and dragged, no pane holds two floating windows of one key; and when a key
\* is opened that the pane already has, no window is added: the pane keeps
\* exactly one window of the key, displayed and in front of all others.
C6_OneWindowPerKey ==
    /\ UniqueKeys
    /\ (lastOpen.called /\ lastOpen.existing) => ReopenedInFront

\* a minimized window was re-opened by its button next to another window that
\* had been opened after it
W6_ReopenedMinimized ==
    /\ lastOpen.called
    /\ lastOpen.existing
    /\ lastOpen.hidden
    /\ lastOpen.count = 2
    /\ IndexOf(floatingWindows, lastOpen.pane, lastOpen.key) = 1
    /\ dockDisplay[lastOpen.pane] = "none"
    /\ floatingWindows[lastOpen.pane][1].zIndex = zBase + 3

\* the keys of the windows of pane p that are minimized
Minimized(p) ==
    {floatingWindows[p][i].key : i \in {j \in 1..Len(floatingWindows[p]) :
                                          floatingWindows[p][j].display = "none"}}

\* C16: the dock of a pane holds exactly one button for each window of the pane
\* that is minimized, and no button for a window that is visible or closed
C16_DockButtonsAreMinimized ==
    \A p \in Panes :
        /\ {dockButtons[p][i] : i \in 1..Len(dockButtons[p])} = Minimized(p)
        /\ \A i, j \in 1..Len(dockButtons[p]) : dockButtons[p][i] = dockButtons[p][j] => i = j

\* two windows of a pane were minimized and the first was restored: the dock
\* holds the button of the second only
W16_OneOfTwoRestored ==
    \E p \in Panes :
        /\ Len(floatingWindows[p]) = 2
        /\ floatingWindows[p][1].display = "flex"
        /\ floatingWindows[p][1].zIndex = zBase + 3
        /\ floatingWindows[p][2].display = "none"
        /\ dockButtons[p] = <<floatingWindows[p][2].key>>

\* C17: the dock of a pane, hidden and empty at the start, is displayed exactly
\* when it holds at least one button
C17_DockVisibleIffButtons ==
    \A p \in Panes : dockDisplay[p] = "flex" <=> Len(dockButtons[p]) > 0

\* the only window of a pane was minimized and opened again by its button of
\* the page: the dock lost its last button and is hidden
W17_LastButtonRemovedByReopen ==
    /\ lastOpen.called
    /\ lastOpen.existing
    /\ lastOpen.hidden
    /\ lastOpen.count = 1
    /\ dockButtons[lastOpen.pane] = << >>
    /\ dockDisplay[lastOpen.pane] = "none"

\* the window key of pane p exists and its z-index is above that of every
\* other floating window of the page
InFront(p, key) ==
    LET i == IndexOf(floatingWindows, p, key)
    IN  /\ i # 0
        /\ \A q \in Panes : \A j \in 1..Len(floatingWindows[q]) :
              <<q, j>> # <<p, i>> => floatingWindows[q][j].zIndex < floatingWindows[p][i].zIndex

\* the step assigns a z-index to the window key of pane p: the window is new,
\* or its z-index is not the one it had
Raised(p, key) ==
    /\ IndexOf(floatingWindows', p, key) # 0
    /\ \/ IndexOf(floatingWindows, p, key) = 0
       \/ floatingWindows'[p][IndexOf(floatingWindows', p, key)].zIndex
             # floatingWindows[p][IndexOf(floatingWindows, p, key)].zIndex

\* C18: right after a window is raised, by an open or re-open, by its dock
\* button, by a mouse-down on it or by the start of a drag, its z-index is
\* strictly above that of every other floating window, of any pane
C18_RaisedIsTopmost ==
    [][\A p \in Panes : \A key \in WindowKeys(p) : Raised(p, key) => InFront(p, key)']_vars

\* a window of the left pane was raised above a window of the right pane that
\* had been raised after it
W18_RaisedAcrossPanes ==
    /\ Len(floatingWindows["left-pane"]) = 1
    /\ Len(floatingWindows["right-pane"]) = 1
    /\ floatingWindows["right-pane"][1].zIndex = zBase + 2
    /\ floatingWindows["left-pane"][1].zIndex = zBase + 3

\* C19: a window that openFloatingWindow has just constructed was placed at a
\* position that differs from the initial position of every other window of
\* its pane
C19_CascadeNeverOverlaps ==
    (lastOpen.called /\ ~lastOpen.existing) =>
        LET p == lastOpen.pane
            i == IndexOf(floatingWindows, p, lastOpen.key)
        IN  \A j \in 1..Len(floatingWindows[p]) :
                j # i => floatingWindows[p][j].initial # floatingWindows[p][i].initial

\* the window the drag in progress moves, as the next state has it
Dragged == floatingWindows[drag.pane][IndexOf(floatingWindows, drag.pane, drag.key)]

\* C20 as stated: after every move of a drag the window lies inside the pane,
\* 0 <= left <= paneWidth - windowWidth and
\* 0 <= top <= paneHeight - windowHeight - 30, whatever the sizes; a pointer
\* move outside a drag changes no position
C20_DragStaysInPane ==
    [][\A x, y \in PointerCoords :
          MouseMove(x, y) =>
              IF drag.on
              THEN /\ 0 <= Dragged'.left
                   /\ Dragged'.left <= layout.paneWidth - layout.winWidth
                   /\ 0 <= Dragged'.top
                   /\ Dragged'.top <= layout.paneHeight - layout.winHeight - BottomMargin
              ELSE floatingWindows' = floatingWindows]_vars

\* C20 as amended: after every move of a drag, left lies between 0 and
\* paneWidth - windowWidth and top between 0 and
\* paneHeight - windowHeight - 30 when the pane leaves that much room, and is 0
\* when it does not; a pointer move outside a drag changes no position
C20_DragClampedToRoom ==
    [][\A x, y \in PointerCoords :
          MouseMove(x, y) =>
              IF drag.on
              THEN /\ 0 <= Dragged'.left
                   /\ Dragged'.left <= Max(0, layout.paneWidth - layout.winWidth)
                   /\ 0 <= Dragged'.top
                   /\ Dragged'.top
                        <= Max(0, layout.paneHeight - layout.winHeight - BottomMargin)
              ELSE floatingWindows' = floatingWindows]_vars

\* a drag in a pane narrower than the window has moved the window up and to
\* the left as far as it goes
W20_DraggedInNarrowPane ==
    /\ drag.on
    /\ layout.paneWidth = NarrowWidth
    /\ layout.paneHeight = PaneHeight
    /\ Dragged.left = 0
    /\ Dragged.top = 0

\* the windows of the page as <<pane, index>>
WindowAt == UNION {{<<p, i>> : i \in 1..Len(floatingWindows[p])} : p \in Panes}

\* C29: no step lowers the z-index of a floating window that it leaves in
\* place, and after every step any two floating windows, of one pane or of
\* two, have different z-indexes: one window is in front of all others
C29_ZOrderGrowsAndDiffers ==
    [][/\ \A p \in Panes : \A key \in {floatingWindows[p][i].key : i \in 1..Len(floatingWindows[p])} :
             IndexOf(floatingWindows', p, key) # 0 =>
                 floatingWindows'[p][IndexOf(floatingWindows', p, key)].zIndex
                    >= floatingWindows[p][IndexOf(floatingWindows, p, key)].zIndex
       /\ \A a, b \in WindowAt' :
             a # b => floatingWindows'[a[1]][a[2]].zIndex # floatingWindows'[b[1]][b[2]].zIndex]_vars

\* of the two windows of a pane the one opened first was raised above the
\* other, and is the front-most window of the page
W29_FirstRaisedAboveSecond ==
    \E p \in Panes :
        /\ Len(floatingWindows[p]) = 2
        /\ floatingWindows[p][1].display = "flex"
        /\ floatingWindows[p][2].display = "flex"
        /\ floatingWindows[p][2].zIndex = zBase + 2
        /\ floatingWindows[p][1].zIndex = zBase + 3

(* ------------------------------------------------------------------ *)
(* Properties of the overlays                                         *)
(* ------------------------------------------------------------------ *)

\* none of the layers of the overlay id is attached to the map
Detached(id, layers) == LayersOf(overlays, id) \cap layers = {}

\* C21: a step that disables an overlay (its checkbox goes from checked to
\* unchecked) leaves none of its layers on the map, and while the overlay stays
\* disabled no later step of the page attaches one of them, the firing of a
\* deferred enable that was pending at the disable included
C21_DisableLeavesNoLayer ==
    [][\A id \in OverlayIds :
          /\ (Toggle(id) /\ id \in checked) => Detached(id, onMap')
          /\ (/\ imageryLoaded /\ imageryLoaded'
              /\ id \notin checked /\ id \notin checked'
              /\ Detached(id, onMap)) => Detached(id, onMap')]_vars

\* the overlay ids whose runtime is an {img, lbl} pair
PairIds == {id \in DOMAIN overlays : IsPair(overlays[id])}

\* C22: in every reachable state the imagery member of a paired runtime is
\* attached to the map exactly when its labels member is
C22_PairAttachedTogether ==
    \A id \in PairIds : <<id, "img">> \in onMap <=> <<id, "lbl">> \in onMap

\* the pair that the feed's handler had enabled was disabled by the user:
\* neither member is on the map
W22_PairDisabled ==
    \E id \in PairIds :
        /\ ~startup.quiet
        /\ id \notin checked
        /\ <<id, "img">> \notin onMap
        /\ <<id, "lbl">> \notin onMap

\* C23: a move of the opacity slider of a paired runtime to v sets the opacity
\* of the imagery member and of the labels member to v
C23_PairOpacitySetTogether ==
    [][\A id \in PairIds : \A v \in SliderValues :
          SetOpacity(id, v) =>
              /\ overlays'[id].img.opacity = v
              /\ overlays'[id].lbl.opacity = v]_vars

\* C24: for every entry of the feed, whatever its service kind and whether its
\* constructor throws or not, addLayerForEntry does not raise and leaves a
\* runtime under the entry's identifier, the empty placeholder when the
\* constructor threw or the kind has no branch; once the feed's handler has
\* run every entry has its runtime, and enabling and disabling it attach and
\* detach that runtime's layers
C24_EveryEntryGetsARuntime ==
    \A i \in 1..Len(imageryRows) :
        LET entry == imageryRows[i]
            id == entry.ui_label
        IN  /\ \A throws \in BOOLEAN :
                 LET r == addLayerForEntry(overlays, entry, throws)
                 IN  /\ ~r.raised
                     /\ id \in DOMAIN r.overlays
                     /\ (throws \/ TryConstruct(entry, FALSE) = << >>)
                           => r.overlays[id] = Placeholder
            /\ imageryLoaded =>
                 /\ id \in DOMAIN overlays
                 /\ id \in ctorThrows => overlays[id] = Placeholder
                 /\ LayersOf(overlays, id) # {}
                 /\ enableLayer(Page, imageryRows, id).onMap = onMap \cup LayersOf(overlays, id)
                 /\ removeLayer(Page, imageryRows, id).onMap = onMap \ LayersOf(overlays, id)

\* the constructors of a hybrid entry threw: the entry has the placeholder as
\* its runtime, its checkbox is checked and the placeholder is on the map
W24_FailedHybridEnabled ==
    \E i \in 1..Len(imageryRows) :
        /\ ToLowerCase(imageryRows[i].service_type) = <<"h","y","b","r","i","d">>
        /\ imageryRows[i].ui_label \in ctorThrows
        /\ imageryLoaded
        /\ overlays[imageryRows[i].ui_label] = Placeholder
        /\ imageryRows[i].ui_label \in checked
        /\ <<imageryRows[i].ui_label, "layer">> \in onMap

\* C27: in every state in which the overlay feed has loaded and no deferred
\* enable is pending, each overlay that has a checkbox (the feed entries, the
\* Street Overlay and OSM) has its layers on the map if its checkbox is
\* checked and none of them if it is not
C27_LayerOnMapIffChecked ==
    (imageryLoaded /\ pendingEnable = {}) =>
        \A i \in 1..Len(Boxes) :
            IF Boxes[i] \in checked
            THEN LayersOf(overlays, Boxes[i]) \subseteq onMap
            ELSE Detached(Boxes[i], onMap)

(* ------------------------------------------------------------------ *)
(* Properties of the metadata workbook                                *)
(* ------------------------------------------------------------------ *)

\* the fetches of the workbook in flight
PendingFetches(fs) == {n \in 1..Len(fs) : fs[n] = "pending"}

\* the fetches in flight that a step settles
Settled == {n \in PendingFetches(fetches) : n <= Len(fetches') /\ fetches'[n] # "pending"}

\* the body of the window with the key in the left pane
BodyOf(fw, key) == fw["left-pane"][IndexOf(fw, "left-pane", key)].body

\* C30: the workbook is loaded single-flight. A fetch is issued only when no
\* fetch is in flight and no workbook is cached, so the calls made while one
\* is pending all await that one fetch, and no call fetches after a success;
\* when the fetch settles every window whose call awaited it shows its
\* result; a failure clears the pending marker, caches nothing, and the next
\* call issues a new fetch.
C30_WorkbookLoadedOnce ==
    [][/\ Len(fetches') > Len(fetches) =>
            /\ PendingFetches(fetches) = {}
            /\ mosaicWorkbook = Null
            /\ Len(fetches') = Len(fetches) + 1
       /\ Cardinality(PendingFetches(fetches')) <= 1
       /\ \A r \in awaiting' : r.fetch \in PendingFetches(fetches')
       /\ PendingFetches(fetches') # {} =>
            /\ loadMosaicWorkbook(Book').book = Book'
            /\ loadMosaicWorkbook(Book').promise \in PendingFetches(fetches')
       /\ mosaicWorkbook' # Null =>
            /\ \E n \in 1..Len(fetches') : fetches'[n] = "fulfilled"
            /\ loadMosaicWorkbook(Book').book = Book'
            /\ loadMosaicWorkbook(Book').promise = NoPromise
       /\ \A n \in Settled :
            /\ \A r \in awaiting :
                  r.fetch = n /\ r.attached => BodyOf(floatingWindows', r.key) = Outcome(fetches', n)
            /\ fetches'[n] = "fulfilled" => mosaicWorkbook' = Workbook
            /\ fetches'[n] = "rejected" =>
                  /\ mosaicWorkbook' = Null
                  /\ mosaicWorkbookLoading' = NoPromise
                  /\ loadMosaicWorkbook(Book').promise = Len(fetches') + 1
                  /\ loadMosaicWorkbook(Book').book.fetches = Append(fetches', "pending")]_vars

\* the first fetch failed, and two open windows await the second
W30_TwoAwaitTheRefetch ==
    /\ fetches = <<"rejected", "pending">>
    /\ \E a, b \in awaiting :
          /\ a.key # b.key
          /\ a.attached /\ b.attached
          /\ a.fetch = 2 /\ b.fetch = 2

\* the windows of the panes without their bodies: which exist, in which order,
\* shown or hidden, where and how high
Frame(fw) ==
    [p \in Panes |-> [i \in 1..Len(fw[p]) |-> [fw[p][i] EXCEPT !.body = ""]]]

\* C31: when a load settles, by success or by failure, no window is created,
\* attached, shown, moved or raised and the dock keeps its buttons, also when
\* a call that awaited the load has had its window closed; every window that
\* is still in the page and whose call awaited the load leaves the placeholder
\* for the sheet or for the error message; and a window shows the placeholder
\* only while a call that holds it awaits a fetch in flight.
C31_SettlingOnlyWritesBodies ==
    [][/\ \A n \in Settled :
            /\ Frame(floatingWindows') = Frame(floatingWindows)
            /\ dockButtons' = dockButtons
            /\ dockDisplay' = dockDisplay
            /\ \A r \in awaiting :
                  r.fetch = n /\ r.attached =>
                      /\ IndexOf(floatingWindows', "left-pane", r.key) # 0
                      /\ BodyOf(floatingWindows', r.key) \in {"sheet", "error"}
            /\ \A r \in awaiting :
                  (r.fetch = n /\ ~r.attached
                     /\ ~\E a \in awaiting : a.key = r.key /\ a.attached) =>
                      /\ IndexOf(floatingWindows', "left-pane", r.key) = 0
                      /\ \A j \in 1..Len(dockButtons'["left-pane"]) :
                            dockButtons'["left-pane"][j] # r.key
       /\ \A w \in AllWindows(floatingWindows') :
            w.body = "loading" =>
                \E r \in awaiting' :
                    r.key = w.key /\ r.attached /\ r.fetch \in PendingFetches(fetches')]_vars

\* a fetch is in flight; the window of one call that awaits it was closed,
\* the window of another is minimized
W31_ClosedAndMinimizedAwait ==
    \E a, b \in awaiting :
        /\ ~a.attached
        /\ IndexOf(floatingWindows, "left-pane", a.key) = 0
        /\ b.attached
        /\ b.key # a.key
        /\ IndexOf(floatingWindows, "left-pane", b.key) # 0
        /\ floatingWindows["left-pane"][IndexOf(floatingWindows, "left-pane", b.key)].display = "none"
        /\ BodyOf(floatingWindows, b.key) = "loading"
        /\ a.fetch \in PendingFetches(fetches) /\ b.fetch \in PendingFetches(fetches)

(* ------------------------------------------------------------------ *)
(* Properties of the viewer                                           *)
(* ------------------------------------------------------------------ *)

\* C32: the load listener of the viewer cannot loop. From every state, the
\* first load event either leaves the source or rewrites it to the source
\* with the view and zoom fragment added, and only if the source is not empty
\* and lacks one of the two parameters; every load event after the first
\* leaves the source and the mark as they are; a load event with an empty
\* source sets nothing.
C32_LoadRewritesOnce ==
    LET once == loadListener(Viewer)
    IN  /\ loadListener(once) = once
        /\ once.src # pdfViewerSrc =>
              /\ pdfViewerSrc # Empty
              /\ ~(Includes(pdfViewerSrc, <<"v","i","e","w","=">>)
                     /\ Includes(pdfViewerSrc, <<"z","o","o","m","=">>))
              /\ once.src = withPdfView(pdfViewerSrc, ReapplyZoom)
              /\ Includes(once.src, <<"v","i","e","w","=">>)
              /\ Includes(once.src, <<"z","o","o","m","=">>)
        /\ pdfViewerSrc = Empty => once = Viewer

\* the viewer shows the active tab with the source the listener rewrote and
\* marked
W32_RewrittenAndMarked ==
    /\ activePdfKey # Null
    /\ pdfViewerSrc # Empty
    /\ appliedOnce = pdfViewerSrc
    /\ pdfViewerSrc =
          withPdfView(buildPdfJsViewerUrl(Entry(openPdfs, activePdfKey).url,
                                          Entry(openPdfs, activePdfKey).aimTitle), ReapplyZoom)

====
